---------------------------- MODULE Spec2Model ----------------------------
(***************************************************************************)
(* MAHSA MicroLearn: the course player (CoursePlayer) and the application  *)
(* shell that owns users, courses, authentication and the active course    *)
(* (App, the version that talks to the PHP store through services/api).    *)
(*                                                                         *)
(* Indices are 0-based as in the source; TLA+ sequences are 1-based, so    *)
(* slide k of a course is slides[k + 1] and option k of a quiz is          *)
(* options[k + 1].  Date.now() timestamps are left out of the records.     *)
(***************************************************************************)
EXTENDS Integers, Sequences, FiniteSets, TLC

VARIABLES
    users,              \* App: useState<User[]>
    courses,            \* App: useState<Course[]>
    isLoading,          \* App: startup load in progress
    isOffline,          \* App: seed data in use
    auth,               \* App: AuthState
    loginError,         \* App: login error text ("" for undefined)
    activeCourse,       \* App: the course being played, or NULL
    currentSlideIndex,  \* CoursePlayer
    selectedOption,     \* CoursePlayer: option index, or NoOption for null
    isAnswerChecked,    \* CoursePlayer
    isCorrect,          \* CoursePlayer
    failedSlides,       \* CoursePlayer: Set<string> of slide ids
    sessionXp,          \* CoursePlayer
    everWrong,          \* history: slide indices answered wrongly in this session
    logins,             \* history: the number of successful logins so far
    edits,              \* history: the number of user-management operations so far
    calls,              \* the observer and store calls made by the last handler
    builder,            \* CourseBuilder: its useState fields, or NULL when not mounted
    db,                 \* the MySQL store behind api.php, or NULL where it is not modelled
    instances           \* the application instances that sync with the store

vars == <<users, courses, isLoading, isOffline, auth, loginError, activeCourse,
          currentSlideIndex, selectedOption, isAnswerChecked, isCorrect,
          failedSlides, sessionXp, everWrong, logins, edits, calls,
          builder, db, instances>>

appVars == <<users, courses, isLoading, isOffline, auth, loginError, activeCourse, logins, edits>>

sessionVars == <<currentSlideIndex, selectedOption, isAnswerChecked, isCorrect,
                 failedSlides, sessionXp, everWrong>>

\* what the App and the CoursePlayer do not hold
otherVars == <<builder, db, instances>>

-----------------------------------------------------------------------------
(* Bounds of the model *)

\* the total number of quiz attempts recorded over all users
MaxAttempts == 3

\* the number of successful logins in one run of the application
MaxLogins == 1

\* the number of user-management operations (add, edit, remove, import, PIN
\* change, PIN reset) in one run of the application
MaxEdits == 1

-----------------------------------------------------------------------------
(* Constants of the program *)

XP_PER_SLIDE == 50

\* JavaScript null (activeCourse, auth.currentUser, the result of find)
NULL == [null |-> TRUE]

\* selectedOption === null
NoOption == -1

-----------------------------------------------------------------------------
(* Seed data: services/mockData *)

INITIAL_USERS ==
    << [id |-> "12345", pin |-> "1234", name |-> "Sarah Jenkins", role |-> "Nurse",
        avatar |-> "Sarah+Jenkins", xp |-> 1250, streak |-> 5,
        badges |-> <<"b1", "b2">>, completedCourses |-> <<>>, quizAttempts |-> <<>>],
       [id |-> "54321", pin |-> "1234", name |-> "Mike Ross", role |-> "Nurse",
        avatar |-> "Mike+Ross", xp |-> 850, streak |-> 2,
        badges |-> <<"b1">>, completedCourses |-> <<>>, quizAttempts |-> <<>>],
       [id |-> "99901", pin |-> "1234", name |-> "Emily Blunt", role |-> "Nurse",
        avatar |-> "Emily+Blunt", xp |-> 2100, streak |-> 12,
        badges |-> <<"b1", "b2", "b3">>, completedCourses |-> <<>>, quizAttempts |-> <<>>],
       [id |-> "admin", pin |-> "1234", name |-> "Dr. A. Wong", role |-> "Educator",
        avatar |-> "Dr+Wong", xp |-> 0, streak |-> 0,
        badges |-> <<>>, completedCourses |-> <<>>, quizAttempts |-> <<>>] >>

INITIAL_COURSES ==
    << [id |-> "c1", title |-> "Hand Hygiene Protocol", category |-> "Infection Control",
        durationMinutes |-> 5, xpReward |-> 100,
        slides |-> <<
          [id |-> "s1", type |-> "intro", title |-> "Importance of Hygiene",
           content |-> "Proper hand hygiene"],
          [id |-> "s2", type |-> "video", title |-> "The 5 Moments",
           content |-> "https://www.youtube.com/embed/IisgnbMfKvI"],
          [id |-> "s3", type |-> "quiz", title |-> "Quick Check", content |-> "",
           quizData |-> [question |-> "How long should you rub your hands together with soap?",
                         options |-> <<"5 seconds", "10 seconds", "At least 20 seconds", "1 minute">>,
                         correctIndex |-> 2]],
          [id |-> "s4", type |-> "summary", title |-> "Module Complete",
           content |-> "You have successfully reviewed"] >>],
       [id |-> "c2", title |-> "Code Red Protocol", category |-> "Emergency",
        durationMinutes |-> 8, xpReward |-> 150,
        slides |-> <<
          [id |-> "s1", type |-> "intro", title |-> "Fire Safety",
           content |-> "Remember R.A.C.E"],
          [id |-> "s2", type |-> "quiz", title |-> "R.A.C.E Acronym", content |-> "",
           quizData |-> [question |-> "What does the C stand for in RACE?",
                         options |-> <<"Call", "Contain", "Cancel", "Care">>,
                         correctIndex |-> 1]],
          [id |-> "s3", type |-> "summary", title |-> "Stay Alert",
           content |-> "Knowing the Code Red protocol saves lives"] >>] >>

-----------------------------------------------------------------------------
(* What the store returns at startup when it is reachable: users created    *)
(* through the dashboard (handleSaveUser) with progress synced since, and   *)
(* a course published through the builder (handleSaveSlide/handleSaveCourse)*)

FETCHED_USERS ==
    << [id |-> "20001", pin |-> "4321", name |-> "Aina", role |-> "Nurse",
        avatar |-> "Aina", xp |-> 0, streak |-> 0,
        badges |-> <<>>, completedCourses |-> <<>>, quizAttempts |-> <<>>],
       [id |-> "20002", pin |-> "8765", name |-> "Bala", role |-> "Nurse",
        avatar |-> "Bala", xp |-> 900, streak |-> 0,
        badges |-> <<"b1">>, completedCourses |-> <<"c1">>, quizAttempts |-> <<>>] >>

BUILT_COURSE ==
    [id |-> "c3-1700000000000", title |-> "Falls Prevention", category |-> "Safety",
     durationMinutes |-> 6, xpReward |-> 150,
     slides |-> <<
       [id |-> "s-1700000000001", type |-> "quiz", title |-> "Knowledge Check", content |-> "",
        quizData |-> [question |-> "Bed rails up?", options |-> <<"Yes", "No">>,
                      correctIndex |-> 0]],
       [id |-> "s-1700000000002", type |-> "video", title |-> "Transfers",
        content |-> "https://www.youtube.com/embed/abcdefghijk"],
       [id |-> "s-1700000000003", type |-> "quiz", title |-> "Knowledge Check", content |-> "",
        quizData |-> [question |-> "Call bell within reach?", options |-> <<"No", "Yes">>,
                      correctIndex |-> 1]] >>]

FETCHED_COURSES == <<INITIAL_COURSES[1], BUILT_COURSE>>

-----------------------------------------------------------------------------
(* JavaScript array helpers *)

\* Array.prototype.includes
Includes(arr, x) == \E i \in DOMAIN arr : arr[i] = x

\* users.find(u => u.id === id): the first match, or null
FindUser(us, id) ==
    IF \E i \in DOMAIN us : us[i].id = id
    THEN us[CHOOSE i \in DOMAIN us :
                /\ us[i].id = id
                /\ \A j \in DOMAIN us : us[j].id = id => i <= j]
    ELSE NULL

\* courses.find(c => c.id === courseId): the first match, or null
FindCourse(cs, id) ==
    IF \E i \in DOMAIN cs : cs[i].id = id
    THEN cs[CHOOSE i \in DOMAIN cs :
                /\ cs[i].id = id
                /\ \A j \in DOMAIN cs : cs[j].id = id => i <= j]
    ELSE NULL

\* slide.quizData is present
HasQuizData(s) == "quizData" \in DOMAIN s

RECURSIVE SumLen(_, _)
SumLen(us, n) == IF n = 0 THEN 0 ELSE Len(us[n].quizAttempts) + SumLen(us, n - 1)

\* the number of quiz attempts held in memory, over all users
TotalAttempts == SumLen(users, Len(users))

-----------------------------------------------------------------------------
(* CoursePlayer: values derived on each render *)

\* the player is rendered: authenticated branch, activeCourse set
Mounted == auth.isAuthenticated /\ activeCourse # NULL

slide == activeCourse.slides[currentSlideIndex + 1]

\* mutant: the last slide is taken to be the one after the end
isLastSlide_OffByOne == currentSlideIndex = Len(activeCourse.slides)

isLastSlide == currentSlideIndex = Len(activeCourse.slides) - 1

\* mutant: Check Answer stays on a quiz slide after the answer is checked
showQuizCheckBtn_Always == slide.type = "quiz"

showQuizCheckBtn == slide.type = "quiz" /\ ~isAnswerChecked

\* mutant: Try Again is offered on every checked quiz, correct or not
showRetryBtn_AfterCorrect == ~showQuizCheckBtn /\ slide.type = "quiz"

\* mutant: Try Again is offered whenever Check Answer is not
showRetryBtn_Always == ~showQuizCheckBtn

\* mutant: Try Again is never offered
showRetryBtn_Never == FALSE

\* the footer shows exactly one of: Check Answer, Try Again, Continue/Finish
showRetryBtn == ~showQuizCheckBtn /\ (slide.type = "quiz" /\ ~isCorrect)

\* mutant: Continue is offered as soon as the answer is checked
showNextBtn_NoGate == ~showQuizCheckBtn

showNextBtn == ~showQuizCheckBtn /\ ~(slide.type = "quiz" /\ ~isCorrect)

\* mutant: the failed set is not consulted
calculateSlideXp_NoPenalty(s) == XP_PER_SLIDE

\* mutant: a quiz never awards XP
calculateSlideXp_QuizZero(s) == IF s.type = "quiz" THEN 0 ELSE XP_PER_SLIDE

calculateSlideXp(s) ==
    IF s.type = "quiz" /\ s.id \in failedSlides THEN 0 ELSE XP_PER_SLIDE

\* mutant: the progress of the player outlives the player
useStateInit_KeepsProgress ==
    /\ currentSlideIndex' = 0
    /\ selectedOption' = NoOption
    /\ isAnswerChecked' = FALSE
    /\ isCorrect' = FALSE
    /\ failedSlides' = failedSlides
    /\ sessionXp' = sessionXp
    /\ everWrong' = everWrong

\* the useState initial values of a freshly mounted player; the same values
\* stand for "no player mounted"
useStateInit ==
    /\ currentSlideIndex' = 0
    /\ selectedOption' = NoOption
    /\ isAnswerChecked' = FALSE
    /\ isCorrect' = FALSE
    /\ failedSlides' = {}
    /\ sessionXp' = 0
    /\ everWrong' = {}

-----------------------------------------------------------------------------
(* App: startup load *)

Init ==
    /\ users = <<>>
    /\ courses = <<>>
    /\ isLoading = TRUE
    /\ isOffline = FALSE
    /\ auth = [isAuthenticated |-> FALSE, currentUser |-> NULL]
    /\ loginError = ""
    /\ activeCourse = NULL
    /\ currentSlideIndex = 0
    /\ selectedOption = NoOption
    /\ isAnswerChecked = FALSE
    /\ isCorrect = FALSE
    /\ failedSlides = {}
    /\ sessionXp = 0
    /\ everWrong = {}
    /\ logins = 0
    /\ edits = 0
    /\ builder = NULL
    /\ db = NULL
    /\ instances = <<>>
    /\ calls = <<>>

\* Promise.all([getUsers(), getCourses()]) resolves
fetchDataOk ==
    /\ isLoading
    /\ users' = FETCHED_USERS
    /\ courses' = FETCHED_COURSES
    /\ isOffline' = FALSE
    /\ isLoading' = FALSE
    /\ calls' = <<>>
    /\ UNCHANGED <<auth, loginError, activeCourse, logins, edits>>
    /\ UNCHANGED sessionVars
    /\ UNCHANGED otherVars

\* mutant: only the users fall back, the course list stays as it is
fetchDataFail_UsersOnly ==
    /\ isLoading
    /\ users' = INITIAL_USERS
    /\ courses' = courses
    /\ isOffline' = TRUE
    /\ isLoading' = FALSE
    /\ calls' = <<>>
    /\ UNCHANGED <<auth, loginError, activeCourse, logins, edits>>
    /\ UNCHANGED sessionVars
    /\ UNCHANGED otherVars

\* either read rejects: fall back to the seed data
fetchDataFail ==
    /\ isLoading
    /\ users' = INITIAL_USERS
    /\ courses' = INITIAL_COURSES
    /\ isOffline' = TRUE
    /\ isLoading' = FALSE
    /\ calls' = <<>>
    /\ UNCHANGED <<auth, loginError, activeCourse, logins, edits>>
    /\ UNCHANGED sessionVars
    /\ UNCHANGED otherVars

-----------------------------------------------------------------------------
(* App: authentication and course launch *)

LoginIds == {users[i].id : i \in DOMAIN users} \cup {"00000"}

LoginPins == {users[i].pin : i \in DOMAIN users} \cup {"0000"}

handleLogin(id, pin) ==
    /\ ~isLoading
    /\ ~auth.isAuthenticated
    /\ IF \E i \in DOMAIN users : users[i].id = id /\ users[i].pin = pin
       THEN /\ logins < MaxLogins
            /\ logins' = logins + 1
            /\ UNCHANGED edits
            /\ auth' = [isAuthenticated |-> TRUE,
                        currentUser |-> users[CHOOSE i \in DOMAIN users :
                            /\ users[i].id = id /\ users[i].pin = pin
                            /\ \A j \in DOMAIN users :
                                 (users[j].id = id /\ users[j].pin = pin) => i <= j]]
            /\ loginError' = ""
       ELSE /\ loginError' = "Invalid Staff ID or PIN"
            /\ UNCHANGED <<auth, logins, edits>>
    /\ calls' = <<>>
    /\ UNCHANGED <<users, courses, isLoading, isOffline, activeCourse>>
    /\ UNCHANGED sessionVars
    /\ UNCHANGED otherVars

handleLogout ==
    /\ ~isLoading
    /\ auth.isAuthenticated
    /\ auth' = [isAuthenticated |-> FALSE, currentUser |-> NULL]
    /\ activeCourse' = NULL
    /\ useStateInit
    /\ calls' = <<>>
    /\ UNCHANGED <<users, courses, isLoading, isOffline, loginError, logins, edits>>
    /\ UNCHANGED otherVars

\* NurseDashboard.onStartCourse; the player mounts with fresh state
handleStartCourse(course) ==
    /\ ~isLoading
    /\ auth.isAuthenticated
    /\ auth.currentUser.role = "Nurse"
    /\ activeCourse = NULL
    /\ activeCourse' = course
    /\ useStateInit
    /\ calls' = <<>>
    /\ UNCHANGED <<users, courses, isLoading, isOffline, auth, loginError, logins, edits>>
    /\ UNCHANGED otherVars

\* mutant: closing the player credits the XP of the run to the user
onClose_Commits ==
    /\ Mounted
    /\ activeCourse' = NULL
    /\ useStateInit
    /\ calls' = <<>>
    /\ users' = [i \in DOMAIN users |->
                    IF users[i].id = auth.currentUser.id
                    THEN [users[i] EXCEPT !.xp = @ + sessionXp] ELSE users[i]]
    /\ UNCHANGED <<courses, isLoading, isOffline, auth, loginError, logins, edits>>
    /\ UNCHANGED otherVars

\* CoursePlayer.onClose = () => setActiveCourse(null)
onClose ==
    /\ Mounted
    /\ activeCourse' = NULL
    /\ useStateInit
    /\ calls' = <<>>
    /\ UNCHANGED <<users, courses, isLoading, isOffline, auth, loginError, logins, edits>>
    /\ UNCHANGED otherVars

-----------------------------------------------------------------------------
(* App: the handlers the player calls back *)

\* handleQuizAttempt: the record appended to the user's history
QuizAttempt(courseId, slideId, question, answer, correct) ==
    [courseId |-> courseId, slideId |-> slideId, question |-> question,
     selectedOption |-> answer, isCorrect |-> correct]

\* onQuizAttempt = handleQuizAttempt: optimistic update, then the store call
handleQuizAttempt(courseId, slideId, question, answer, correct) ==
    LET observed == [op |-> "onQuizAttempt", courseId |-> courseId, slideId |-> slideId,
                     question |-> question, answer |-> answer, isCorrect |-> correct]
    IN
    IF auth.currentUser = NULL
    THEN /\ calls' = <<observed>>
         /\ UNCHANGED <<users, auth>>
    ELSE LET attempt == QuizAttempt(courseId, slideId, question, answer, correct)
             updatedUser == [auth.currentUser EXCEPT
                                !.quizAttempts = Append(@, attempt)]
         IN /\ users' = [i \in DOMAIN users |->
                            IF users[i].id = auth.currentUser.id
                            THEN updatedUser ELSE users[i]]
            /\ auth' = [auth EXCEPT !.currentUser = updatedUser]
            /\ calls' = <<observed,
                          [op |-> "logQuizAttempt", userId |-> auth.currentUser.id,
                           attempt |-> attempt]>>

\* mutant: the length is tested as it was before the course was appended
FirstCourse_BeforeAppend(newCompleted) == Len(newCompleted) - 1 = 1

\* handleCompleteCourse: newCompleted.length === 1
FirstCourse(newCompleted) == Len(newCompleted) = 1

\* mutant: the milestone is tested on the XP held before the completion
XpMilestone_Before(u, earnedXp) == u.xp >= 1000

\* handleCompleteCourse: newXp >= 1000, with newXp = u.xp + earnedXp
XpMilestone(u, earnedXp) == u.xp + earnedXp >= 1000

\* mutant: the badges are pushed without looking at the badges held
RewardedUser_Readds(u, courseId, earnedXp, perfect) ==
    LET newXp == u.xp + earnedXp
        newCompleted == Append(u.completedCourses, courseId)
        badges0 == u.badges
        badges1 == IF FirstCourse(newCompleted)
                   THEN Append(badges0, "b1") ELSE badges0
        badges2 == IF XpMilestone(u, earnedXp)
                   THEN Append(badges1, "b2") ELSE badges1
        badges3 == IF perfect
                   THEN Append(badges2, "b4") ELSE badges2
    IN [u EXCEPT !.xp = newXp, !.badges = badges3, !.completedCourses = newCompleted]

\* handleCompleteCourse, the body of users.map for the current user who has
\* not completed the course: XP, completed list and the three badge rules
RewardedUser(u, courseId, earnedXp, perfect) ==
    LET newXp == u.xp + earnedXp
        newCompleted == Append(u.completedCourses, courseId)
        badges0 == u.badges
        badges1 == IF FirstCourse(newCompleted) /\ ~Includes(badges0, "b1")
                   THEN Append(badges0, "b1") ELSE badges0
        badges2 == IF XpMilestone(u, earnedXp) /\ ~Includes(badges1, "b2")
                   THEN Append(badges1, "b2") ELSE badges1
        badges3 == IF perfect /\ ~Includes(badges2, "b4")
                   THEN Append(badges2, "b4") ELSE badges2
    IN [u EXCEPT !.xp = newXp, !.badges = badges3, !.completedCourses = newCompleted]

\* mutant: the maximum is taken from the course's declared reward
maxPossibleXp_Declared(courseId) ==
    LET course == FindCourse(courses, courseId)
    IN IF course # NULL THEN course.xpReward ELSE 0

\* handleCompleteCourse: maxPossibleXp
maxPossibleXp(courseId) ==
    LET course == FindCourse(courses, courseId)
    IN IF course # NULL THEN Len(course.slides) * 50 ELSE 0

\* handleCompleteCourse: isPerfectScore
isPerfectScore(courseId, earnedXp) ==
    earnedXp = maxPossibleXp(courseId) /\ maxPossibleXp(courseId) > 0

\* mutant: the guard against a double reward is missing
AlreadyCompleted_Never(u, courseId) == FALSE

\* handleCompleteCourse: the guard against a double reward
AlreadyCompleted(u, courseId) == Includes(u.completedCourses, courseId)

\* onComplete = handleCompleteCourse
handleCompleteCourse(courseId, earnedXp) ==
    LET observed == [op |-> "onComplete", courseId |-> courseId, xp |-> earnedXp]
    IN
    IF auth.currentUser = NULL
    THEN /\ calls' = <<observed>>
         /\ UNCHANGED <<users, auth, activeCourse>>
    ELSE LET uid == auth.currentUser.id
             userUpdated == \E i \in DOMAIN users :
                               /\ users[i].id = uid
                               /\ ~AlreadyCompleted(users[i], courseId)
             updatedUsers == [i \in DOMAIN users |->
                                IF users[i].id = uid
                                THEN IF AlreadyCompleted(users[i], courseId)
                                     THEN users[i]
                                     ELSE RewardedUser(users[i], courseId, earnedXp,
                                                       isPerfectScore(courseId, earnedXp))
                                ELSE users[i]]
             updatedCurrentUser == FindUser(updatedUsers, uid)
         IN IF userUpdated
            THEN /\ users' = updatedUsers
                 /\ auth' = [isAuthenticated |-> TRUE, currentUser |-> updatedCurrentUser]
                 /\ calls' = IF updatedCurrentUser # NULL
                             THEN <<observed, [op |-> "updateUserProgress",
                                               user |-> updatedCurrentUser]>>
                             ELSE <<observed>>
                 /\ activeCourse' = NULL
            ELSE /\ calls' = <<observed>>
                 /\ UNCHANGED <<users, auth, activeCourse>>

-----------------------------------------------------------------------------
(* CoursePlayer: the handlers behind the controls *)

\* the option buttons tapped in the runs explored: the correct option and the
\* one after it (wrapping round), whatever the number of options
Taps ==
    IF Mounted /\ HasQuizData(slide)
    THEN {slide.quizData.correctIndex,
          (slide.quizData.correctIndex + 1) % Len(slide.quizData.options)}
    ELSE {}

\* mutant: the handler records the tap whether or not the answer is checked
selectOption_Unguarded(idx) ==
    /\ Mounted
    /\ slide.type = "quiz"
    /\ HasQuizData(slide)
    /\ idx \in 0 .. Len(slide.quizData.options) - 1
    /\ selectedOption' = idx
    /\ calls' = <<>>
    /\ UNCHANGED appVars
    /\ UNCHANGED <<currentSlideIndex, isAnswerChecked, isCorrect, failedSlides,
                   sessionXp, everWrong>>
    /\ UNCHANGED otherVars

\* an option button: onClick={() => !isAnswerChecked && setSelectedOption(idx)}.
\* The button is disabled once the answer is checked; a tap that still
\* arrives runs the handler, which then does nothing.
selectOption(idx) ==
    /\ Mounted
    /\ slide.type = "quiz"
    /\ HasQuizData(slide)
    /\ idx \in 0 .. Len(slide.quizData.options) - 1
    /\ selectedOption' = IF ~isAnswerChecked THEN idx ELSE selectedOption
    /\ calls' = <<>>
    /\ UNCHANGED appVars
    /\ UNCHANGED <<currentSlideIndex, isAnswerChecked, isCorrect, failedSlides,
                   sessionXp, everWrong>>
    /\ UNCHANGED otherVars

\* mutant: the text reported is that of the correct option
selectedText_Correct == slide.quizData.options[slide.quizData.correctIndex + 1]

\* handleQuizSubmit: slide.quizData.options[selectedOption]
selectedText == slide.quizData.options[selectedOption + 1]

\* mutant: a correct answer takes the slide out of the failed set
handleQuizSubmit_Forgives ==
    /\ Mounted
    /\ showQuizCheckBtn
    /\ selectedOption # NoOption
    /\ TotalAttempts < MaxAttempts
    /\ ~(selectedOption = NoOption \/ ~HasQuizData(slide))
    /\ LET correct == selectedOption = slide.quizData.correctIndex
       IN /\ isCorrect' = correct
          /\ isAnswerChecked' = TRUE
          /\ failedSlides' = IF ~correct THEN failedSlides \cup {slide.id}
                             ELSE failedSlides \ {slide.id}
          /\ everWrong' = IF ~correct THEN everWrong \cup {currentSlideIndex}
                          ELSE everWrong
          /\ handleQuizAttempt(activeCourse.id, slide.id, slide.quizData.question,
                               selectedText, correct)
    /\ UNCHANGED <<courses, isLoading, isOffline, loginError, activeCourse, logins, edits>>
    /\ UNCHANGED <<currentSlideIndex, selectedOption, sessionXp>>
    /\ UNCHANGED otherVars

\* Check Answer: shown when showQuizCheckBtn, disabled while nothing is selected
handleQuizSubmit ==
    /\ Mounted
    /\ showQuizCheckBtn
    /\ selectedOption # NoOption
    /\ TotalAttempts < MaxAttempts
    /\ ~(selectedOption = NoOption \/ ~HasQuizData(slide))
    /\ LET correct == selectedOption = slide.quizData.correctIndex
       IN /\ isCorrect' = correct
          /\ isAnswerChecked' = TRUE
          /\ failedSlides' = IF ~correct THEN failedSlides \cup {slide.id}
                             ELSE failedSlides
          /\ everWrong' = IF ~correct THEN everWrong \cup {currentSlideIndex}
                          ELSE everWrong
          /\ handleQuizAttempt(activeCourse.id, slide.id, slide.quizData.question,
                               selectedText, correct)
    /\ UNCHANGED <<courses, isLoading, isOffline, loginError, activeCourse, logins, edits>>
    /\ UNCHANGED <<currentSlideIndex, selectedOption, sessionXp>>
    /\ UNCHANGED otherVars

\* mutant: a retry forgives the slide
handleRetry_Forgives ==
    /\ Mounted
    /\ showRetryBtn
    /\ isAnswerChecked' = FALSE
    /\ selectedOption' = NoOption
    /\ isCorrect' = FALSE
    /\ failedSlides' = failedSlides \ {slide.id}
    /\ calls' = <<>>
    /\ UNCHANGED appVars
    /\ UNCHANGED <<currentSlideIndex, sessionXp, everWrong>>
    /\ UNCHANGED otherVars

\* Try Again: shown when the slide is a quiz, checked and not correct
handleRetry ==
    /\ Mounted
    /\ showRetryBtn
    /\ isAnswerChecked' = FALSE
    /\ selectedOption' = NoOption
    /\ isCorrect' = FALSE
    /\ calls' = <<>>
    /\ UNCHANGED appVars
    /\ UNCHANGED <<currentSlideIndex, failedSlides, sessionXp, everWrong>>
    /\ UNCHANGED otherVars

\* mutant: moving on keeps the answer state of the slide left behind
handleNext_KeepsAnswer ==
    /\ Mounted
    /\ showNextBtn
    /\ LET earnedForThisSlide == calculateSlideXp(slide)
           newTotalXp == sessionXp + earnedForThisSlide
       IN IF isLastSlide
          THEN /\ handleCompleteCourse(activeCourse.id, newTotalXp)
               /\ IF activeCourse' = NULL
                  THEN useStateInit
                  ELSE UNCHANGED sessionVars
               /\ UNCHANGED <<courses, isLoading, isOffline, loginError, logins, edits>>
          ELSE /\ sessionXp' = newTotalXp
               /\ currentSlideIndex' = currentSlideIndex + 1
               /\ calls' = <<>>
               /\ UNCHANGED appVars
               /\ UNCHANGED <<selectedOption, isAnswerChecked, isCorrect,
                              failedSlides, everWrong>>
    /\ UNCHANGED otherVars

\* mutant: the last slide's XP is also committed to the session total
handleNext_CommitsLast ==
    /\ Mounted
    /\ showNextBtn
    /\ LET earnedForThisSlide == calculateSlideXp(slide)
           newTotalXp == sessionXp + earnedForThisSlide
       IN IF isLastSlide
          THEN /\ handleCompleteCourse(activeCourse.id, newTotalXp)
               /\ IF activeCourse' = NULL
                  THEN useStateInit
                  ELSE /\ sessionXp' = newTotalXp
                       /\ UNCHANGED <<currentSlideIndex, selectedOption,
                                      isAnswerChecked, isCorrect, failedSlides,
                                      everWrong>>
               /\ UNCHANGED <<courses, isLoading, isOffline, loginError, logins, edits>>
          ELSE /\ sessionXp' = newTotalXp
               /\ currentSlideIndex' = currentSlideIndex + 1
               /\ selectedOption' = NoOption
               /\ isAnswerChecked' = FALSE
               /\ isCorrect' = FALSE
               /\ calls' = <<>>
               /\ UNCHANGED appVars
               /\ UNCHANGED <<failedSlides, everWrong>>
    /\ UNCHANGED otherVars

\* Continue / Finish Module
handleNext ==
    /\ Mounted
    /\ showNextBtn
    /\ LET earnedForThisSlide == calculateSlideXp(slide)
           newTotalXp == sessionXp + earnedForThisSlide
       IN IF isLastSlide
          THEN /\ handleCompleteCourse(activeCourse.id, newTotalXp)
               /\ IF activeCourse' = NULL
                  THEN useStateInit
                  ELSE UNCHANGED sessionVars
               /\ UNCHANGED <<courses, isLoading, isOffline, loginError, logins, edits>>
          ELSE /\ sessionXp' = newTotalXp
               /\ currentSlideIndex' = currentSlideIndex + 1
               /\ selectedOption' = NoOption
               /\ isAnswerChecked' = FALSE
               /\ isCorrect' = FALSE
               /\ calls' = <<>>
               /\ UNCHANGED appVars
               /\ UNCHANGED <<failedSlides, everWrong>>
    /\ UNCHANGED otherVars

-----------------------------------------------------------------------------

Next ==
    \/ fetchDataOk
    \/ fetchDataFail
    \/ \E id \in LoginIds, pin \in LoginPins : handleLogin(id, pin)
    \/ handleLogout
    \/ \E i \in DOMAIN courses : handleStartCourse(courses[i])
    \/ onClose
    \/ \E idx \in Taps : selectOption(idx)
    \/ handleQuizSubmit
    \/ handleRetry
    \/ handleNext

Spec == Init /\ [][Next]_vars

-----------------------------------------------------------------------------
(* Properties *)

\* the entry of the user list for the logged-in user
CurUser == FindUser(users, auth.currentUser.id)

\* the last handler fired onComplete
OnCompleteFired == calls # <<>> /\ calls[1].op = "onComplete"

\* handleNext on the last slide
TerminalAdvance == handleNext /\ isLastSlide

\* the XP a handleNext step adds for the slide it leaves
XpAdded ==
    IF isLastSlide THEN calls'[1].xp - sessionXp ELSE sessionXp' - sessionXp

\* handleNext on the last slide by a user who has not completed the course
AppliedCompletion ==
    TerminalAdvance /\ ~Includes(CurUser.completedCourses, activeCourse.id)

\* C1: at the terminal advance of a session over a course of N slides, the
\* totalXp handed to onComplete is (N - K) * 50, K being the number of quiz
\* slides answered incorrectly at least once in the session.
C1_TotalXp ==
    [][TerminalAdvance =>
          /\ calls' # <<>>
          /\ calls'[1].op = "onComplete"
          /\ calls'[1].courseId = activeCourse.id
          /\ calls'[1].xp =
                (Len(activeCourse.slides) - Cardinality(everWrong)) * 50]_vars

\* C1 witness: the four-slide course c1 completed with its quiz failed once
C1_Witness ==
    OnCompleteFired /\ calls[1].courseId = "c1" /\ calls[1].xp = 150

\* C2: advancing past a quiz slide that was answered incorrectly at least
\* once adds exactly 0 XP, although the last check before the advance was
\* correct.
C2_FailedQuizZero ==
    [][(handleNext /\ slide.type = "quiz" /\ currentSlideIndex \in everWrong) =>
          (isAnswerChecked /\ isCorrect /\ XpAdded = 0)]_vars

\* C2 witness: the player has moved on from a quiz that was failed and then
\* corrected, and holds no XP for it
C2_Witness ==
    /\ Mounted
    /\ currentSlideIndex > 0
    /\ (currentSlideIndex - 1) \in everWrong
    /\ activeCourse.slides[currentSlideIndex].type = "quiz"
    /\ sessionXp = (currentSlideIndex - 1) * 50

Unresolved ==
    Mounted /\ slide.type = "quiz" /\ (~isAnswerChecked \/ ~isCorrect)

\* C4: while the current slide is a quiz whose answer is unchecked, or whose
\* last check was incorrect, no advance takes effect: handleNext does not run,
\* onComplete is not fired, nothing is rewarded, and as long as the session
\* lasts the slide index, the session XP and the failed set stay as they are
\* unless an answer is submitted.
C4_QuizGate ==
    [][Unresolved =>
          /\ ~handleNext
          /\ ~OnCompleteFired'
          /\ \A i \in DOMAIN users :
                i \in DOMAIN users' /\ users'[i].xp = users[i].xp
          /\ activeCourse' # NULL =>
                /\ currentSlideIndex' = currentSlideIndex
                /\ sessionXp' = sessionXp
                /\ (failedSlides' = failedSlides \/ handleQuizSubmit)]_vars

\* C4 witness: the last slide is a quiz whose checked answer is wrong
C4_Witness ==
    Mounted /\ isLastSlide /\ slide.type = "quiz" /\ isAnswerChecked /\ ~isCorrect

\* C5: handleRetry runs only when the current slide is a quiz whose answer is
\* checked and incorrect; it clears checked, selectedOption and isCorrect and
\* changes no other session field.  A checked answer is never cleared in
\* place after a correct answer.
C5_Retry ==
    [][/\ handleRetry =>
            /\ slide.type = "quiz" /\ isAnswerChecked /\ ~isCorrect
            /\ ~isAnswerChecked' /\ selectedOption' = NoOption /\ ~isCorrect'
            /\ UNCHANGED <<currentSlideIndex, failedSlides, sessionXp,
                           activeCourse, users, auth>>
       /\ (/\ Mounted /\ activeCourse' # NULL
           /\ currentSlideIndex' = currentSlideIndex
           /\ isAnswerChecked /\ ~isAnswerChecked')
            => ~isCorrect]_vars

\* C5 witness: a quiz is back in its unanswered state after a wrong answer
C5_Witness ==
    /\ Mounted
    /\ slide.type = "quiz"
    /\ slide.id \in failedSlides
    /\ ~isAnswerChecked /\ selectedOption = NoOption /\ ~isCorrect

\* the onQuizAttempt calls among the calls of the last handler
AttemptCalls(cs) == {i \in DOMAIN cs : cs[i].op = "onQuizAttempt"}

\* C6: every handleQuizSubmit emits exactly one attempt through the observer,
\* for a correct and for an incorrect answer alike, carrying the course id,
\* the slide id, the question, the text of the selected option and
\* correct = (selectedOption = correctIndex).
C6_OneAttempt ==
    [][handleQuizSubmit =>
          /\ Cardinality(AttemptCalls(calls')) = 1
          /\ calls'[1] = [op |-> "onQuizAttempt",
                          courseId |-> activeCourse.id,
                          slideId |-> slide.id,
                          question |-> slide.quizData.question,
                          answer |-> slide.quizData.options[selectedOption + 1],
                          isCorrect |-> (selectedOption = slide.quizData.correctIndex)]]_vars

\* C6 witness: an incorrect answer has just been reported
C6_Witness ==
    calls # <<>> /\ calls[1].op = "onQuizAttempt" /\ ~calls[1].isCorrect

\* C7: handleCompleteCourse for a course already in the current user's
\* completed list leaves that user's xp, badges and completed list (and the
\* whole user list) unchanged, whatever the XP earned and however often it is
\* repeated; no progress sync is issued.
C7_CompletionIdempotent ==
    [][(TerminalAdvance /\ Includes(CurUser.completedCourses, activeCourse.id)) =>
          /\ users' = users
          /\ auth' = auth
          /\ calls' = <<[op |-> "onComplete", courseId |-> activeCourse.id,
                         xp |-> sessionXp + calculateSlideXp(slide)]>>]_vars

\* C7 witness: onComplete has just been fired for a course the user had
\* completed before (the player is still mounted)
C7_Witness ==
    /\ Mounted
    /\ OnCompleteFired
    /\ Includes(CurUser.completedCourses, calls[1].courseId)

\* C8: on an applied completion the perfect-score badge b4 is granted iff the
\* run's totalXp equals slideCount * 50, that is iff no quiz was failed on
\* the run (granting is idempotent: a badge already held stays, once).
C8_PerfectScore ==
    [][AppliedCompletion =>
          LET before == CurUser
              after == FindUser(users', auth.currentUser.id)
              perfect == calls'[1].xp = Len(activeCourse.slides) * 50
          IN /\ perfect <=> everWrong = {}
             /\ Includes(after.badges, "b4") <=>
                    (perfect \/ Includes(before.badges, "b4"))
             /\ (~Includes(before.badges, "b4") /\ perfect) =>
                    after.badges[Len(after.badges)] = "b4"]_vars

\* C8 witness: a user holds b4 after completing c1 with all 200 XP
C8_Witness ==
    \E i \in DOMAIN users :
        /\ Includes(users[i].badges, "b4")
        /\ Includes(users[i].completedCourses, "c1")
        /\ OnCompleteFired /\ calls[1].courseId = "c1" /\ calls[1].xp = 200

\* C9: on an applied completion the first-course badge b1 is awarded iff the
\* user's completed-course count becomes exactly 1 (awarding is idempotent).
C9_FirstCourse ==
    [][AppliedCompletion =>
          LET before == CurUser
              after == FindUser(users', auth.currentUser.id)
              first == Len(after.completedCourses) = 1
          IN /\ Len(after.completedCourses) = Len(before.completedCourses) + 1
             /\ Includes(after.badges, "b1") <=>
                    (first \/ Includes(before.badges, "b1"))
             /\ (~Includes(before.badges, "b1") /\ first) =>
                    after.badges[Len(before.badges) + 1] = "b1"]_vars

\* C9 witness: the nurse who started without badges holds b1 and one
\* completed course
C9_Witness ==
    \E i \in DOMAIN users :
        /\ users[i].id = "20001"
        /\ Len(users[i].completedCourses) = 1
        /\ Includes(users[i].badges, "b1")

\* C10: on an applied completion the xp-milestone badge b2 is awarded iff the
\* updated total XP, XP before plus the run's XP, is at least 1000 (awarding
\* is idempotent); the XP held before the completion does not decide it.
C10_XpMilestone ==
    [][AppliedCompletion =>
          LET before == CurUser
              after == FindUser(users', auth.currentUser.id)
              reached == before.xp + calls'[1].xp >= 1000
          IN /\ after.xp = before.xp + calls'[1].xp
             /\ Includes(after.badges, "b2") <=>
                    (reached \/ Includes(before.badges, "b2"))]_vars

\* C10 witness: a nurse who started below 1000 XP holds exactly 1000 XP and b2
C10_Witness ==
    \E i \in DOMAIN users :
        /\ users[i].xp = 1000
        /\ Includes(users[i].badges, "b2")
        /\ OnCompleteFired

-----------------------------------------------------------------------------

\* a session goes on over the step: the player is mounted before and after
\* (a new session can only start while no course is active)
SessionGoesOn == Mounted /\ activeCourse' # NULL /\ auth'.isAuthenticated

\* C11: within a session the failed-slide set only grows: a submit with a
\* wrong selection adds the id of the current slide, and no step of the
\* session (retry, a later correct submit, a tap, an advance) removes an id.
C11_FailedGrows ==
    [][/\ SessionGoesOn => failedSlides \subseteq failedSlides'
       /\ (handleQuizSubmit /\ selectedOption # slide.quizData.correctIndex)
            => failedSlides' = failedSlides \cup {slide.id}]_vars

\* C11 witness: a quiz answered wrongly, retried and answered correctly is
\* still in the failed set
C11_Witness ==
    /\ Mounted
    /\ slide.type = "quiz"
    /\ isAnswerChecked /\ isCorrect
    /\ slide.id \in failedSlides

\* a course of the list is launched
StartsCourse == \E i \in DOMAIN courses : handleStartCourse(courses[i])

\* C12: launching a course mounts the player at slide index 0 with an empty
\* failed set, zero session XP and a cleared answer state, whatever an
\* earlier session of the same or another course left behind.
C12_FreshSession ==
    [][StartsCourse =>
          /\ activeCourse = NULL /\ activeCourse' # NULL
          /\ \E i \in DOMAIN courses : activeCourse' = courses[i]
          /\ currentSlideIndex' = 0
          /\ failedSlides' = {}
          /\ sessionXp' = 0
          /\ selectedOption' = NoOption
          /\ ~isAnswerChecked'
          /\ ~isCorrect']_vars

\* C12 witness: a fresh session of a course in which the same user answered a
\* quiz wrongly in an earlier session
C12_Witness ==
    /\ Mounted
    /\ currentSlideIndex = 0 /\ sessionXp = 0 /\ failedSlides = {}
    /\ selectedOption = NoOption /\ ~isAnswerChecked /\ ~isCorrect
    /\ \E k \in DOMAIN CurUser.quizAttempts :
          /\ CurUser.quizAttempts[k].courseId = activeCourse.id
          /\ ~CurUser.quizAttempts[k].isCorrect

\* an option button is tapped
TapsOption == \E idx \in Taps : selectOption(idx)

\* C14: a tap on an option records the choice only while the current slide is
\* a quiz whose answer is unchecked; once the answer is checked the tap leaves
\* the whole session state as it is.  In neither case does it change the
\* session XP, the failed set or the slide index, nor emit an attempt.
C14_SelectOption ==
    [][/\ TapsOption =>
            /\ slide.type = "quiz"
            /\ IF isAnswerChecked
               THEN selectedOption' = selectedOption
               ELSE selectedOption' \in Taps
            /\ UNCHANGED <<currentSlideIndex, isAnswerChecked, isCorrect,
                           failedSlides, sessionXp, activeCourse, users, auth>>
            /\ calls' = <<>>
       /\ (SessionGoesOn /\ selectedOption' \notin {selectedOption, NoOption})
            => (slide.type = "quiz" /\ ~isAnswerChecked)]_vars

\* C14 witness: an option was tapped after the answer had been checked, and
\* the checked answer stands
C14_Witness ==
    /\ Mounted
    /\ slide.type = "quiz"
    /\ isAnswerChecked /\ ~isCorrect
    /\ selectedOption # NoOption
    /\ calls = <<>>

\* the XP contribution of the current slide, as the scoring rule states it
Contribution ==
    IF slide.type = "quiz" /\ slide.id \in failedSlides THEN 0 ELSE 50

\* C15: handleNext on a slide that is not the last one increments the slide
\* index by exactly 1, adds the slide's XP contribution to the session XP,
\* clears the answer state, leaves the failed set unchanged and does not
\* fire onComplete.
C15_Advance ==
    [][(handleNext /\ ~isLastSlide) =>
          /\ currentSlideIndex' = currentSlideIndex + 1
          /\ sessionXp' = sessionXp + Contribution
          /\ selectedOption' = NoOption /\ ~isAnswerChecked' /\ ~isCorrect'
          /\ failedSlides' = failedSlides
          /\ calls' = <<>>
          /\ UNCHANGED <<activeCourse, users, auth>>]_vars

\* C15 witness: the second slide of the built course, reached from its first
\* quiz answered wrongly and then correctly: cleared answer state, no XP, the
\* failed set kept
C15_Witness ==
    /\ Mounted
    /\ activeCourse.id = BUILT_COURSE.id
    /\ currentSlideIndex = 1
    /\ sessionXp = 0
    /\ failedSlides = {BUILT_COURSE.slides[1].id}
    /\ selectedOption = NoOption /\ ~isAnswerChecked /\ ~isCorrect

\* the onComplete calls among the calls of the last handler
CompleteCalls(cs) == {i \in DOMAIN cs : cs[i].op = "onComplete"}

\* C16: handleNext on the last slide fires onComplete exactly once, within
\* the same step, with the course id and session XP + the last slide's
\* contribution, and does not itself change the slide index, the session XP,
\* the failed set or the answer state (they go only with the player, when the
\* application closes it).
C16_TerminalAdvance ==
    [][TerminalAdvance =>
          /\ Cardinality(CompleteCalls(calls')) = 1
          /\ calls'[1] = [op |-> "onComplete", courseId |-> activeCourse.id,
                          xp |-> sessionXp + Contribution]
          /\ activeCourse' # NULL =>
                UNCHANGED <<currentSlideIndex, sessionXp, failedSlides,
                            selectedOption, isAnswerChecked, isCorrect>>]_vars

\* C16 witness: onComplete fired for the built course with one quiz failed,
\* the completion applied and synced
C16_Witness ==
    /\ Len(calls) = 2
    /\ calls[1].op = "onComplete"
    /\ calls[1].courseId = BUILT_COURSE.id
    /\ calls[1].xp = 100
    /\ calls[2].op = "updateUserProgress"

\* C17: every playback session is destroyed when it completes: after the
\* terminal advance of a session, whether or not the user had completed the
\* course before, no active course remains.
C17_SessionDestroyed ==
    [][TerminalAdvance => activeCourse' = NULL]_vars

\* the slide index is within the slide list of the active course
IndexInRange ==
    0 <= currentSlideIndex /\ currentSlideIndex < Len(activeCourse.slides)

\* C18: in every state of a session the slide index satisfies
\* 0 <= index < slides.length, and no step of the session decreases it.
C18_IndexBounds ==
    [][/\ (activeCourse' # NULL) => IndexInRange'
       /\ SessionGoesOn => currentSlideIndex' >= currentSlideIndex]_vars

\* C18 witness: the player stands on the last slide of the four-slide course
C18_Witness ==
    /\ Mounted
    /\ Len(activeCourse.slides) = 4
    /\ currentSlideIndex = 3

\* no element occurs twice in the array
DupFree(arr) == \A i, j \in DOMAIN arr : arr[i] = arr[j] => i = j

\* C21: starting from users whose lists are duplicate-free, after any
\* sequence of completions each course id occurs at most once in a user's
\* completed-course list and each badge id at most once in the badge list.
C21_NoDuplicates ==
    /\ \A i \in DOMAIN users :
          DupFree(users[i].badges) /\ DupFree(users[i].completedCourses)
    /\ auth.currentUser # NULL =>
          (DupFree(auth.currentUser.badges)
             /\ DupFree(auth.currentUser.completedCourses))

\* C21 witness: the seed user who held b1 and b2 before any completion has
\* completed a first course with a perfect score
C21_Witness ==
    \E i \in DOMAIN users :
        /\ users[i].id = "12345"
        /\ Len(users[i].completedCourses) = 1
        /\ users[i].badges = <<"b1", "b2", "b4">>

\* the progress of a user record: what a completion rewards
Progress(u) == <<u.xp, u.badges, u.completedCourses>>

\* the updateUserProgress calls among the calls of the last handler
SyncCalls(cs) == {i \in DOMAIN cs : cs[i].op = "updateUserProgress"}

\* the session is abandoned: the player is closed, or the user logs out of it
Abandons == onClose \/ (handleLogout /\ activeCourse # NULL)

SubmitMisuse ==
    /\ Mounted
    /\ \/ selectedOption = NoOption
       \/ slide.type # "quiz"
       \/ isAnswerChecked

\* the quiz-attempt histories of all users, by position in the list
Histories(us) == [i \in DOMAIN us |-> us[i].quizAttempts]

\* C25: a submit is refused in each misuse case (no option selected, the
\* slide is not a quiz, the answer is already checked): handleQuizSubmit does
\* not run there, no attempt is emitted or recorded, and the checked answer,
\* the failed set and the XP are not changed by a submit.
C25_SubmitMisuse ==
    [][SubmitMisuse =>
          /\ ~handleQuizSubmit
          /\ AttemptCalls(calls') = {}
          /\ Histories(users') = Histories(users)
          /\ activeCourse' # NULL => failedSlides' = failedSlides]_vars

\* C25 witness: a checked answer on a quiz slide while the attempt budget of
\* the run is not used up
C25_Witness ==
    /\ Mounted
    /\ slide.type = "quiz"
    /\ isAnswerChecked /\ ~isCorrect
    /\ selectedOption # NoOption
    /\ TotalAttempts < MaxAttempts

\* the current slide is a quiz whose checked answer is correct
ResolvedCorrect == Mounted /\ slide.type = "quiz" /\ isAnswerChecked /\ isCorrect

\* C26: once a quiz slide is checked and correct, that state is terminal for
\* the slide: a tap, a submit and a retry have no effect there, and only
\* handleNext leaves it for the next slide or for the completion (the session
\* can still be abandoned); the slide index changes by no other operation.
C26_ResolvedTerminal ==
    [][/\ ResolvedCorrect =>
            /\ ~handleQuizSubmit /\ ~handleRetry
            /\ \/ handleNext
               \/ Abandons
               \/ UNCHANGED <<activeCourse, currentSlideIndex, selectedOption,
                              isAnswerChecked, isCorrect, failedSlides, sessionXp>>
       /\ (SessionGoesOn /\ currentSlideIndex' # currentSlideIndex) => handleNext
       /\ (Mounted /\ OnCompleteFired') => handleNext]_vars

\* C26 witness: an option was tapped on a quiz slide that is checked and
\* correct, and the slide is still checked and correct
C26_Witness ==
    /\ ResolvedCorrect
    /\ calls = <<>>

-----------------------------------------------------------------------------
(* The store holds a course without slides.  get_courses returns every row   *)
(* of the courses table with its slides column decoded, save_course stores   *)
(* whatever slides it is sent, and Course.slides is a plain Slide[].         *)

EMPTY_COURSE ==
    [id |-> "c4-1700000000004", title |-> "Draft", category |-> "Safety",
     durationMinutes |-> 0, xpReward |-> 0, slides |-> <<>>]

\* Promise.all([getUsers(), getCourses()]) resolves, a course without slides
\* among the courses
fetchDataDraft ==
    /\ isLoading
    /\ users' = FETCHED_USERS
    /\ courses' = Append(FETCHED_COURSES, EMPTY_COURSE)
    /\ isOffline' = FALSE
    /\ isLoading' = FALSE
    /\ calls' = <<>>
    /\ UNCHANGED <<auth, loginError, activeCourse, logins, edits>>
    /\ UNCHANGED sessionVars
    /\ UNCHANGED otherVars

\* the application renders.  Over a course without slides, slide is undefined
\* and progress is 1 / 0 * 100: the first render of the player throws on
\* slide.type, React takes the whole tree down, and no handler runs again.
Rendered == IF activeCourse = NULL THEN TRUE ELSE Len(activeCourse.slides) > 0

StoreNext ==
    \/ fetchDataDraft
    \/ fetchDataOk
    \/ fetchDataFail
    \/ Rendered /\ \E id \in LoginIds, pin \in LoginPins : handleLogin(id, pin)
    \/ Rendered /\ handleLogout
    \/ Rendered /\ \E i \in DOMAIN courses : handleStartCourse(courses[i])
    \/ Rendered /\ onClose
    \/ Rendered /\ \E idx \in Taps : selectOption(idx)
    \/ Rendered /\ handleQuizSubmit
    \/ Rendered /\ handleRetry
    \/ Rendered /\ handleNext

StoreSpec == Init /\ [][StoreNext]_vars

\* C13: launching a course whose slide list is empty fails: no session is
\* created (no course becomes active, the player state is not set up), so no
\* progress value is computed by dividing by a slide count of zero.
C13_EmptyCourseRejected ==
    [][\A i \in DOMAIN courses :
          (handleStartCourse(courses[i]) /\ Len(courses[i].slides) = 0)
             => (activeCourse' = NULL /\ UNCHANGED sessionVars)]_vars

-----------------------------------------------------------------------------
(* App: PIN handling and user management, as driven by the login screen,     *)
(* the nurse dashboard and the educator dashboard                            *)

\* newPin.length === 4 && !isNaN(Number(newPin)), over the PINs that occur
IsFourDigitPin(p) == p \in {"0000", "1234", "2468", "4321", "8765", "9999"}

\* api.saveUser(user), not awaited
SaveUserCall(u) == [op |-> "saveUser", user |-> u]

\* users.findIndex(u => u.id === id): 1-based here, 0 for -1
FindIndex(us, id) ==
    IF \E i \in DOMAIN us : us[i].id = id
    THEN CHOOSE i \in DOMAIN us :
            /\ us[i].id = id
            /\ \A j \in DOMAIN us : us[j].id = id => i <= j
    ELSE 0

\* { ...a, ...b }
Spread(a, b) ==
    [f \in DOMAIN a \cup DOMAIN b |-> IF f \in DOMAIN b THEN b[f] ELSE a[f]]

\* the educator dashboard is rendered
EducatorView ==
    /\ ~isLoading
    /\ auth.isAuthenticated
    /\ auth.currentUser.role = "Educator"

\* the ids typed into the forgot-PIN form
ResetIds == {users[i].id : i \in DOMAIN users} \cup {"00000"}

\* LoginScreen.onResetPin
handleResetPin(id, newPin) ==
    /\ ~isLoading
    /\ ~auth.isAuthenticated
    /\ edits < MaxEdits
    /\ edits' = edits + 1
    /\ LET userIndex == FindIndex(users, id)
       IN IF userIndex # 0
          THEN LET updatedUser == [users[userIndex] EXCEPT !.pin = newPin]
               IN /\ users' = [users EXCEPT ![userIndex] = updatedUser]
                  /\ calls' = <<SaveUserCall(updatedUser)>>
          ELSE /\ users' = users
               /\ calls' = <<>>
    /\ UNCHANGED <<courses, isLoading, isOffline, auth, loginError, activeCourse, logins>>
    /\ UNCHANGED sessionVars
    /\ UNCHANGED otherVars

\* what is typed into the prompt of handleChangePin; "" is Cancel
PinPrompts == {"9999", "99", ""}

\* NurseDashboard.onChangePin
handleChangePin(newPin) ==
    /\ ~isLoading
    /\ auth.isAuthenticated
    /\ auth.currentUser.role = "Nurse"
    /\ activeCourse = NULL
    /\ edits < MaxEdits
    /\ edits' = edits + 1
    /\ IF newPin # "" /\ IsFourDigitPin(newPin) /\ auth.currentUser # NULL
       THEN LET updatedUser == [auth.currentUser EXCEPT !.pin = newPin]
            IN /\ users' = [i \in DOMAIN users |->
                               IF users[i].id = auth.currentUser.id
                               THEN updatedUser ELSE users[i]]
               /\ auth' = [auth EXCEPT !.currentUser = updatedUser]
               /\ calls' = <<SaveUserCall(updatedUser)>>
       ELSE /\ UNCHANGED <<users, auth>>
            /\ calls' = <<>>
    /\ UNCHANGED <<courses, isLoading, isOffline, loginError, activeCourse, logins>>
    /\ UNCHANGED sessionVars
    /\ UNCHANGED otherVars

\* mutant: the user is added whether or not the id is in use
handleAddUser_NoCheck(newUser) ==
    /\ users' = Append(users, newUser)
    /\ calls' = <<SaveUserCall(newUser)>>
    /\ UNCHANGED auth

\* EducatorDashboard.onAddUser
handleAddUser(newUser) ==
    IF \E i \in DOMAIN users : users[i].id = newUser.id
    THEN /\ UNCHANGED <<users, auth>>
         /\ calls' = <<>>
    ELSE /\ users' = Append(users, newUser)
         /\ calls' = <<SaveUserCall(newUser)>>
         /\ UNCHANGED auth

\* EducatorDashboard.onUpdateUser
handleUpdateUser(updatedUser) ==
    /\ users' = [i \in DOMAIN users |->
                    IF users[i].id = updatedUser.id THEN updatedUser ELSE users[i]]
    /\ auth' = IF auth.currentUser # NULL /\ auth.currentUser.id = updatedUser.id
               THEN [auth EXCEPT !.currentUser = updatedUser]
               ELSE auth
    /\ calls' = <<SaveUserCall(updatedUser)>>

\* the user form as filled in for a new user: a fresh id or one in use, the
\* name possibly left empty
AddForms ==
    {[id |-> id, name |-> name, pin |-> "2468", role |-> "Nurse"] :
        id \in {"30001"} \cup {users[i].id : i \in {1} \cap DOMAIN users},
        name \in {"Chen Wei", ""}}

\* the user form as opened on a user of the list (handleOpenEditUser) and
\* then changed in its name, PIN and role
EditForms ==
    UNION { {[id |-> users[i].id, name |-> name, pin |-> pin, role |-> role] :
                name \in {users[i].name, "Nur Aisyah"},
                pin \in {users[i].pin, "2468"},
                role \in {"Nurse", "Educator"}} : i \in DOMAIN users }

\* mutant: an edited user is built afresh, like a new one
handleSaveUser_Rebuilds(newUser, isEditUserMode) ==
    /\ EducatorView
    /\ edits < MaxEdits
    /\ edits' = edits + 1
    /\ IF newUser.name = "" \/ newUser.id = "" \/ newUser.pin = ""
       THEN /\ UNCHANGED <<users, auth>>
            /\ calls' = <<>>
       ELSE LET built == [id |-> newUser.id, name |-> newUser.name,
                          pin |-> newUser.pin, role |-> newUser.role,
                          avatar |-> newUser.name, xp |-> 0, streak |-> 0,
                          badges |-> <<>>, completedCourses |-> <<>>,
                          quizAttempts |-> <<>>]
            IN IF isEditUserMode
               THEN IF FindUser(users, newUser.id) # NULL
                    THEN handleUpdateUser(built)
                    ELSE /\ UNCHANGED <<users, auth>>
                         /\ calls' = <<>>
               ELSE handleAddUser(built)
    /\ UNCHANGED <<courses, isLoading, isOffline, loginError, activeCourse, logins>>
    /\ UNCHANGED sessionVars
    /\ UNCHANGED otherVars

\* EducatorDashboard: Save in the user form
handleSaveUser(newUser, isEditUserMode) ==
    /\ EducatorView
    /\ edits < MaxEdits
    /\ edits' = edits + 1
    /\ IF newUser.name = "" \/ newUser.id = "" \/ newUser.pin = ""
       THEN /\ UNCHANGED <<users, auth>>
            /\ calls' = <<>>
       ELSE IF isEditUserMode
            THEN LET originalUser == FindUser(users, newUser.id)
                 IN IF originalUser # NULL
                    THEN handleUpdateUser(
                            [originalUser EXCEPT
                                !.name = newUser.name,
                                !.pin = newUser.pin,
                                !.role = newUser.role,
                                !.avatar = IF originalUser.name # newUser.name
                                           THEN newUser.name ELSE @])
                    ELSE /\ UNCHANGED <<users, auth>>
                         /\ calls' = <<>>
            ELSE handleAddUser(
                    [id |-> newUser.id, name |-> newUser.name, pin |-> newUser.pin,
                     role |-> newUser.role, avatar |-> newUser.name,
                     xp |-> 0, streak |-> 0, badges |-> <<>>,
                     completedCourses |-> <<>>, quizAttempts |-> <<>>])
    /\ UNCHANGED <<courses, isLoading, isOffline, loginError, activeCourse, logins>>
    /\ UNCHANGED sessionVars
    /\ UNCHANGED otherVars

\* users.filter(u => u.id !== userId)
WithoutUser(us, userId) == SelectSeq(us, LAMBDA u : u.id # userId)

\* mutant: the educator's own account is removed like any other
handleRemoveUser_NoSelfCheck(userId, confirmed) ==
    /\ EducatorView
    /\ edits < MaxEdits
    /\ edits' = edits + 1
    /\ IF confirmed
       THEN /\ users' = WithoutUser(users, userId)
            /\ calls' = <<[op |-> "deleteUser", userId |-> userId]>>
       ELSE /\ users' = users
            /\ calls' = <<>>
    /\ UNCHANGED <<courses, isLoading, isOffline, auth, loginError, activeCourse, logins>>
    /\ UNCHANGED sessionVars
    /\ UNCHANGED otherVars

\* EducatorDashboard.onRemoveUser; confirmed is the answer to confirm()
handleRemoveUser(userId, confirmed) ==
    /\ EducatorView
    /\ edits < MaxEdits
    /\ edits' = edits + 1
    /\ IF auth.currentUser # NULL /\ userId = auth.currentUser.id
       THEN /\ users' = users
            /\ calls' = <<>>
       ELSE IF confirmed
            THEN /\ users' = WithoutUser(users, userId)
                 /\ calls' = <<[op |-> "deleteUser", userId |-> userId]>>
            ELSE /\ users' = users
                 /\ calls' = <<>>
    /\ UNCHANGED <<courses, isLoading, isOffline, auth, loginError, activeCourse, logins>>
    /\ UNCHANGED sessionVars
    /\ UNCHANGED otherVars

\* handleFileChange: one data line id,name,pin,role of the CSV file as a user
ParsedUser(row) ==
    [id |-> row.id, name |-> row.name, pin |-> row.pin,
     role |-> IF row.role = "Nurse" \/ row.role = "Educator" THEN row.role ELSE "Nurse",
     avatar |-> row.name, xp |-> 0, streak |-> 0, badges |-> <<>>,
     completedCourses |-> <<>>, quizAttempts |-> <<>>]

\* handleFileChange: the users parsed from the data lines, a line without id,
\* name or pin being skipped
RECURSIVE ParsedUsers(_)
ParsedUsers(rows) ==
    IF rows = <<>> THEN <<>>
    ELSE LET row == Head(rows)
         IN IF row.id # "" /\ row.name # "" /\ row.pin # ""
            THEN <<ParsedUser(row)>> \o ParsedUsers(Tail(rows))
            ELSE ParsedUsers(Tail(rows))

\* handleImportUsers: the forEach over importedUsers, from position k on
RECURSIVE ImportInto(_, _, _)
ImportInto(updatedUsers, importedUsers, k) ==
    IF k > Len(importedUsers) THEN updatedUsers
    ELSE LET imported == importedUsers[k]
             index == FindIndex(updatedUsers, imported.id)
         IN IF index # 0
            THEN ImportInto([updatedUsers EXCEPT ![index] = Spread(@, imported)],
                            importedUsers, k + 1)
            ELSE ImportInto(Append(updatedUsers, imported), importedUsers, k + 1)

\* EducatorDashboard.onImportUsers
handleImportUsers(importedUsers) ==
    /\ users' = ImportInto(users, importedUsers, 1)
    /\ calls' = [k \in DOMAIN importedUsers |-> SaveUserCall(importedUsers[k])]

\* the CSV files chosen: one line for a user of the list; a new user with an
\* unknown role and a user of the list; a line without id; one line for a
\* user the store holds; two lines with the same new id; one line for the
\* seed educator under a new name
CsvFiles ==
    { << [id |-> "12345", name |-> "Sarah Jenkins", pin |-> "1234", role |-> "Nurse"] >>,
      << [id |-> "30002", name |-> "Devi", pin |-> "1357", role |-> "Doctor"],
         [id |-> "54321", name |-> "Mike Ross", pin |-> "1234", role |-> "Nurse"] >>,
      << [id |-> "", name |-> "Nameless", pin |-> "1111", role |-> "Nurse"] >>,
      << [id |-> "20002", name |-> "Bala", pin |-> "8765", role |-> "Nurse"] >>,
      << [id |-> "30003", name |-> "Farah", pin |-> "1470", role |-> "Nurse"],
         [id |-> "30003", name |-> "Farah Lee", pin |-> "1470", role |-> "Nurse"] >>,
      << [id |-> "admin", name |-> "Dr. Alice Wong", pin |-> "1234", role |-> "Educator"] >> }

\* EducatorDashboard: a CSV file is chosen and read
handleFileChange(rows) ==
    /\ EducatorView
    /\ edits < MaxEdits
    /\ edits' = edits + 1
    /\ LET parsedUsers == ParsedUsers(rows)
       IN IF Len(parsedUsers) > 0
          THEN handleImportUsers(parsedUsers)
          ELSE /\ users' = users
               /\ calls' = <<>>
    /\ UNCHANGED <<courses, isLoading, isOffline, auth, loginError, activeCourse, logins>>
    /\ UNCHANGED sessionVars
    /\ UNCHANGED otherVars

\* what the store returns once the hospital uses it: an educator account,
\* and the attempt nurse 20002 logged when completing c1
STAFFED_USERS ==
    << FETCHED_USERS[1],
       [FETCHED_USERS[2] EXCEPT !.quizAttempts =
           << [courseId |-> "c1", slideId |-> "s3",
               question |-> "How long should you rub your hands together with soap?",
               selectedOption |-> "At least 20 seconds", isCorrect |-> TRUE] >>],
       [id |-> "20003", pin |-> "2580", name |-> "Siti", role |-> "Educator",
        avatar |-> "Siti", xp |-> 0, streak |-> 0,
        badges |-> <<>>, completedCourses |-> <<>>, quizAttempts |-> <<>>] >>

\* Promise.all([getUsers(), getCourses()]) resolves with those users
fetchDataStaffed ==
    /\ isLoading
    /\ users' = STAFFED_USERS
    /\ courses' = FETCHED_COURSES
    /\ isOffline' = FALSE
    /\ isLoading' = FALSE
    /\ calls' = <<>>
    /\ UNCHANGED <<auth, loginError, activeCourse, logins, edits>>
    /\ UNCHANGED sessionVars
    /\ UNCHANGED otherVars

ManageNext ==
    \/ Next
    \/ fetchDataStaffed
    \/ \E id \in ResetIds : handleResetPin(id, "0000")
    \/ \E newPin \in PinPrompts : handleChangePin(newPin)
    \/ \E newUser \in AddForms : handleSaveUser(newUser, FALSE)
    \/ \E newUser \in EditForms : handleSaveUser(newUser, TRUE)
    \/ \E i \in DOMAIN users, confirmed \in BOOLEAN :
          handleRemoveUser(users[i].id, confirmed)
    \/ \E rows \in CsvFiles : handleFileChange(rows)

ManageSpec == Init /\ [][ManageNext]_vars

\* every user of the list that is still in the list after the step
Kept == {id \in {users[i].id : i \in DOMAIN users} : FindUser(users', id) # NULL}

\* C19: a user's xp never decreases: over every step of the application (quiz
\* attempt, course completion, user edit, CSV import, PIN change or reset) a
\* user that stays in the list has at least the xp it had.
C19_XpMonotone ==
    [][\A id \in Kept : FindUser(users', id).xp >= FindUser(users, id).xp]_vars

\* the elements of a JavaScript array
Elems(arr) == {arr[i] : i \in DOMAIN arr}

\* C20: a user's badges and completed courses only grow: over every step of
\* the application a user that stays in the list keeps every badge it held
\* and every course id recorded as completed.
C20_BadgesGrow ==
    [][\A id \in Kept :
          /\ Elems(FindUser(users, id).badges) \subseteq Elems(FindUser(users', id).badges)
          /\ Elems(FindUser(users, id).completedCourses)
                \subseteq Elems(FindUser(users', id).completedCourses)]_vars

\* s is an initial segment of t
IsPrefix(s, t) == Len(s) <= Len(t) /\ SubSeq(t, 1, Len(s)) = s

\* C22: each user's quiz-attempt history is append-only: over every step of
\* the application the history of a user that stays in the list keeps the
\* earlier history as a prefix, and a submit by the logged-in user appends
\* exactly one record to that user's history and none to any other user's.
C22_AttemptsAppendOnly ==
    [][/\ \A id \in Kept :
             IsPrefix(FindUser(users, id).quizAttempts,
                      FindUser(users', id).quizAttempts)
       /\ handleQuizSubmit =>
             \A id \in Kept :
                Len(FindUser(users', id).quizAttempts) =
                   Len(FindUser(users, id).quizAttempts)
                      + (IF id = auth.currentUser.id THEN 1 ELSE 0)]_vars

-----------------------------------------------------------------------------
(* The store calls settle: api.x(...).catch(e => console.error(...)) *)

\* the course the builder hands to onAddCourse
BuiltCourseData ==
    [f \in DOMAIN BUILT_COURSE \ {"id"} |-> BUILT_COURSE[f]]

\* handleAddCourse(courseData), with Date.now() = 1700000000000; the course is
\* built once
handleAddCourse(courseData) ==
    /\ EducatorView
    /\ activeCourse = NULL
    /\ Len(courses) = 2
    /\ \A i \in DOMAIN courses : courses[i].id # "c3-1700000000000"
    /\ LET newCourse == Spread(courseData, [id |-> "c3-1700000000000"])
       IN  /\ courses' = Append(courses, newCourse)
           /\ calls' = <<[op |-> "saveCourse", course |-> newCourse]>>
    /\ UNCHANGED <<users, isLoading, isOffline, auth, loginError, activeCourse,
                   logins, edits>>
    /\ UNCHANGED sessionVars
    /\ UNCHANGED otherVars

\* the requests api.ts sends and the handlers do not wait for
StoreOps ==
    {"saveUser", "logQuizAttempt", "updateUserProgress", "deleteUser", "saveCourse"}

\* the calls of the last handler that have not settled
Outstanding == {i \in DOMAIN calls : calls[i].op \in StoreOps}

\* the promise of the i-th call settles: resolved (ok), or rejected by
\* apiRequest's throw; the rejection handler logs to the console and the
\* resolution has no handler.  A promise that never settles takes no step.
apiRequest_RollsBack(i, ok) ==
    /\ i \in Outstanding
    /\ calls' = [calls EXCEPT ![i] = [op |-> "settled", call |-> calls[i], ok |-> ok]]
    /\ isOffline' = IF ok THEN isOffline ELSE TRUE
    /\ auth' = IF ok THEN auth ELSE [isAuthenticated |-> FALSE, currentUser |-> NULL]
    /\ UNCHANGED <<users, courses, isLoading, loginError, activeCourse,
                   logins, edits>>
    /\ UNCHANGED sessionVars
    /\ UNCHANGED otherVars

apiRequest(i, ok) ==
    /\ i \in Outstanding
    /\ calls' = [calls EXCEPT ![i] = [op |-> "settled", call |-> calls[i], ok |-> ok]]
    /\ UNCHANGED appVars
    /\ UNCHANGED sessionVars
    /\ UNCHANGED otherVars

SyncNext ==
    \/ Next
    \/ fetchDataStaffed
    \/ \E id \in ResetIds : handleResetPin(id, "0000")
    \/ \E newPin \in PinPrompts : handleChangePin(newPin)
    \/ \E newUser \in AddForms : handleSaveUser(newUser, FALSE)
    \/ \E newUser \in EditForms : handleSaveUser(newUser, TRUE)
    \/ \E i \in DOMAIN users, confirmed \in BOOLEAN :
          handleRemoveUser(users[i].id, confirmed)
    \/ \E rows \in CsvFiles : handleFileChange(rows)
    \/ handleAddCourse(BuiltCourseData)
    \/ \E i \in DOMAIN calls, ok \in BOOLEAN : apiRequest(i, ok)

SyncSpec == Init /\ [][SyncNext]_vars

\* a store call of the last handler settles in this step
Settles == \E i \in DOMAIN calls, ok \in BOOLEAN : apiRequest(i, ok)

\* the operations the rendered screen offers
Offered ==
    << ENABLED handleLogout, ENABLED onClose, ENABLED handleQuizSubmit,
       ENABLED handleRetry, ENABLED handleNext,
       {idx \in Taps : ENABLED selectOption(idx)},
       {i \in DOMAIN courses : ENABLED handleStartCourse(courses[i])},
       {newPin \in PinPrompts : ENABLED handleChangePin(newPin)},
       {newUser \in AddForms : ENABLED handleSaveUser(newUser, FALSE)},
       {newUser \in EditForms : ENABLED handleSaveUser(newUser, TRUE)},
       {i \in DOMAIN users : ENABLED handleRemoveUser(users[i].id, TRUE)},
       {rows \in CsvFiles : ENABLED handleFileChange(rows)},
       ENABLED handleAddCourse(BuiltCourseData) >>

\* C23: when a fire-and-forget store call settles, with success or with
\* failure, the in-memory users, courses, auth and session state stay exactly
\* as they were and every user operation offered before is still offered.
C23_OutcomeIgnored ==
    [][Settles =>
          /\ UNCHANGED <<users, courses, auth, isLoading, isOffline, loginError,
                         activeCourse>>
          /\ UNCHANGED sessionVars
          /\ Offered' = Offered]_vars

\* a rejected progress sync is on record while the completion it followed
\* stands in memory
C23_Witness ==
    /\ \E i \in DOMAIN calls :
          /\ calls[i].op = "settled"
          /\ ~calls[i].ok
          /\ calls[i].call.op = "updateUserProgress"
          /\ auth.isAuthenticated
          /\ auth.currentUser.xp = calls[i].call.user.xp
          /\ FindUser(users, auth.currentUser.id).xp = calls[i].call.user.xp

-----------------------------------------------------------------------------
(* The store: api.php over the tables users and quiz_attempts, serving two
   instances of the application *)

\* the requests the two instances send before the exploration stops
MaxRequests == 3

\* the table engines a MySQL server creates the tables with: InnoDB enforces
\* the FOREIGN KEY of quiz_attempts, MyISAM parses and ignores it
Engines == {"InnoDB", "MyISAM"}

\* a row of the table users for a user of the application
UserRow(u) ==
    [id |-> u.id, pin |-> u.pin, name |-> u.name, role |-> u.role,
     avatar |-> u.avatar, xp |-> u.xp, streak |-> u.streak,
     badges |-> u.badges, completed_courses |-> u.completedCourses]

\* a row of the table quiz_attempts
AttemptRow(uid, att) ==
    [user_id |-> uid, course_id |-> att.courseId, slide_id |-> att.slideId,
     question |-> att.question, selected_option |-> att.selectedOption,
     is_correct |-> IF att.isCorrect THEN 1 ELSE 0]

\* SELECT * FROM quiz_attempts WHERE user_id = uid
RECURSIVE SelectRows(_, _)
SelectRows(s, uid) ==
    IF s = <<>> THEN <<>>
    ELSE IF Head(s).user_id = uid
         THEN <<Head(s)>> \o SelectRows(Tail(s), uid)
         ELSE SelectRows(Tail(s), uid)

\* DELETE FROM quiz_attempts WHERE user_id = uid, as the cascade does
RECURSIVE DeleteRows(_, _)
DeleteRows(s, uid) ==
    IF s = <<>> THEN <<>>
    ELSE IF Head(s).user_id = uid
         THEN DeleteRows(Tail(s), uid)
         ELSE <<Head(s)>> \o DeleteRows(Tail(s), uid)

\* get_users: one user of the reply, the row joined with its attempts
get_users(d, id) ==
    LET row == d.users[id]
        rows == SelectRows(d.quiz_attempts, id)
    IN [id |-> row.id, pin |-> row.pin, name |-> row.name, role |-> row.role,
        avatar |-> row.avatar, xp |-> row.xp, streak |-> row.streak,
        badges |-> row.badges, completedCourses |-> row.completed_courses,
        quizAttempts |-> [k \in DOMAIN rows |->
                            [courseId |-> rows[k].course_id,
                             slideId |-> rows[k].slide_id,
                             question |-> rows[k].question,
                             selectedOption |-> rows[k].selected_option,
                             isCorrect |-> rows[k].is_correct = 1]]]

\* the statement of save_user: REPLACE INTO users (id, pin, name, role, avatar,
\* badges, completed_courses).  REPLACE deletes the row that holds the key, with the
\* cascade the engine enforces, and inserts the new row; the columns it does
\* not name, xp and streak, take their DEFAULT 0.
REPLACE_INTO_users(d, data) ==
    LET id == data.id
        row == [id |-> id, pin |-> data.pin, name |-> data.name, role |-> data.role,
                avatar |-> data.avatar, xp |-> 0, streak |-> 0,
                badges |-> data.badges, completed_courses |-> data.completedCourses]
        cascades == id \in DOMAIN d.users /\ d.engine = "InnoDB"
    IN [d EXCEPT
          !.users = [k \in DOMAIN d.users \cup {id} |->
                       IF k = id THEN row ELSE d.users[k]],
          !.quiz_attempts = IF cascades THEN DeleteRows(@, id) ELSE @]

\* mutant: the update keeps what the row holds and adds what is new
UPDATE_users_Merges(d, data) ==
    LET id == data.id
    IN IF id \notin DOMAIN d.users THEN d
       ELSE [d EXCEPT
               !.users[id].xp = IF data.xp > @ THEN data.xp ELSE @,
               !.users[id].badges =
                   @ \o SelectSeq(data.badges,
                                  LAMBDA b : ~Includes(d.users[id].badges, b)),
               !.users[id].completed_courses =
                   @ \o SelectSeq(data.completedCourses,
                                  LAMBDA c : ~Includes(d.users[id].completed_courses, c))]

\* the statement of update_user_progress: UPDATE users SET xp, badges,
\* completed_courses WHERE id
UPDATE_users(d, data) ==
    LET id == data.id
    IN IF id \notin DOMAIN d.users THEN d
       ELSE [d EXCEPT !.users[id].xp = data.xp,
                      !.users[id].badges = data.badges,
                      !.users[id].completed_courses = data.completedCourses]

\* the statement of log_quiz_attempt: INSERT INTO quiz_attempts; InnoDB refuses a row whose
\* user_id is not in users
INSERT_INTO_quiz_attempts(d, data) ==
    IF d.engine = "InnoDB" /\ data.userId \notin DOMAIN d.users THEN d
    ELSE [d EXCEPT !.quiz_attempts = Append(@, AttemptRow(data.userId, data.attempt))]

\* s without its k-th element
RemoveAt(s, k) == SubSeq(s, 1, k - 1) \o SubSeq(s, k + 1, Len(s))

\* the store as installed and used for a while, and two browsers that have
\* fetched the courses and show the login screen
DbInit ==
    /\ users = <<>>
    /\ courses = FETCHED_COURSES
    /\ isLoading = FALSE
    /\ isOffline = FALSE
    /\ auth = [isAuthenticated |-> FALSE, currentUser |-> NULL]
    /\ loginError = ""
    /\ activeCourse = NULL
    /\ currentSlideIndex = 0
    /\ selectedOption = NoOption
    /\ isAnswerChecked = FALSE
    /\ isCorrect = FALSE
    /\ failedSlides = {}
    /\ sessionXp = 0
    /\ everWrong = {}
    /\ logins = 0
    /\ edits = 0
    /\ builder = NULL
    /\ calls = <<>>
    /\ db \in {[engine |-> e,
                users |-> [id \in {FETCHED_USERS[k].id : k \in DOMAIN FETCHED_USERS} |->
                             UserRow(FindUser(FETCHED_USERS, id))],
                quiz_attempts |-> <<>>] : e \in Engines}
    /\ instances = [i \in 1..2 |-> [currentUser |-> NULL, requests |-> <<>>, sent |-> 0]]

\* what no step of the store or of the two instances touches
dbFrame ==
    /\ UNCHANGED appVars
    /\ UNCHANGED sessionVars
    /\ UNCHANGED <<calls, builder>>

\* instance i fetches the users and a nurse logs in
handleLogin_At(i, id) ==
    /\ instances[i].currentUser = NULL
    /\ id \in DOMAIN db.users
    /\ instances' = [instances EXCEPT ![i].currentUser = get_users(db, id)]
    /\ UNCHANGED db
    /\ dbFrame

\* instance i sends req
Sends(i, updatedUser, req) ==
    /\ instances[1].sent + instances[2].sent < MaxRequests
    /\ instances' = [instances EXCEPT ![i].currentUser = updatedUser,
                                      ![i].requests = Append(@, req),
                                      ![i].sent = @ + 1]

\* handleChangePin on instance i
handleChangePin_At(i, newPin) ==
    /\ instances[i].currentUser # NULL
    /\ newPin # "" /\ IsFourDigitPin(newPin)
    /\ instances[i].currentUser.pin # newPin
    /\ LET updatedUser == [instances[i].currentUser EXCEPT !.pin = newPin]
       IN Sends(i, updatedUser, SaveUserCall(updatedUser))
    /\ UNCHANGED db
    /\ dbFrame

\* handleQuizAttempt on instance i
handleQuizAttempt_At(i, attempt) ==
    /\ instances[i].currentUser # NULL
    /\ LET updatedUser == [instances[i].currentUser EXCEPT
                              !.quizAttempts = Append(@, attempt)]
       IN Sends(i, updatedUser,
                [op |-> "logQuizAttempt", userId |-> instances[i].currentUser.id,
                 attempt |-> attempt])
    /\ UNCHANGED db
    /\ dbFrame

\* handleCompleteCourse on instance i, for a course not completed before
handleCompleteCourse_At(i, courseId, earnedXp) ==
    /\ instances[i].currentUser # NULL
    /\ ~AlreadyCompleted(instances[i].currentUser, courseId)
    /\ LET updatedCurrentUser ==
              RewardedUser(instances[i].currentUser, courseId, earnedXp,
                           isPerfectScore(courseId, earnedXp))
       IN Sends(i, updatedCurrentUser,
                [op |-> "updateUserProgress", user |-> updatedCurrentUser])
    /\ UNCHANGED db
    /\ dbFrame

\* the k-th request instance i has in flight, when it calls the action op
InFlight(i, k, op) ==
    /\ k \in DOMAIN instances[i].requests
    /\ instances[i].requests[k].op = op

\* api.php, action save_user, serving the k-th request of instance i
save_user(i, k) ==
    /\ InFlight(i, k, "saveUser")
    /\ db' = REPLACE_INTO_users(db, instances[i].requests[k].user)
    /\ instances' = [instances EXCEPT ![i].requests = RemoveAt(@, k)]
    /\ dbFrame

\* api.php, action update_user_progress
update_user_progress(i, k) ==
    /\ InFlight(i, k, "updateUserProgress")
    /\ db' = UPDATE_users(db, instances[i].requests[k].user)
    /\ instances' = [instances EXCEPT ![i].requests = RemoveAt(@, k)]
    /\ dbFrame

\* api.php, action log_quiz_attempt
log_quiz_attempt(i, k) ==
    /\ InFlight(i, k, "logQuizAttempt")
    /\ db' = INSERT_INTO_quiz_attempts(db, instances[i].requests[k])
    /\ instances' = [instances EXCEPT ![i].requests = RemoveAt(@, k)]
    /\ dbFrame

\* the attempts a nurse logs
LoggedAttempts ==
    {QuizAttempt("c1", "s3", "How long should you rub your hands together with soap?",
                 "5 seconds", FALSE)}

\* the XP a session of the course can end with: every slide, or all but one
EarnedXps(course) ==
    {Len(course.slides) * XP_PER_SLIDE, (Len(course.slides) - 1) * XP_PER_SLIDE}

DbNext ==
    \/ \E i \in 1..2, id \in DOMAIN db.users : handleLogin_At(i, id)
    \/ \E i \in 1..2 : handleChangePin_At(i, "9999")
    \/ \E i \in 1..2, attempt \in LoggedAttempts : handleQuizAttempt_At(i, attempt)
    \/ \E i \in 1..2, c \in DOMAIN courses :
          \E xp \in EarnedXps(courses[c]) :
             handleCompleteCourse_At(i, courses[c].id, xp)
    \/ \E i \in 1..2, k \in 1..MaxRequests : save_user(i, k)
    \/ \E i \in 1..2, k \in 1..MaxRequests : update_user_progress(i, k)
    \/ \E i \in 1..2, k \in 1..MaxRequests : log_quiz_attempt(i, k)

DbSpec == DbInit /\ [][DbNext]_vars

\* the columns save_user supplies a value for
SuppliedColumns ==
    {"id", "pin", "name", "role", "avatar", "badges", "completed_courses"}

\* C27: save_user is an idempotent upsert by id: after it is served the row
\* of that id carries the supplied user's data, a row stored before keeps
\* every column the call supplies no value for (its xp and streak), the rows
\* of the other users are untouched, and serving the same request once more
\* leaves the store as it is.
C27_SaveUserUpsert ==
    [][\A i \in 1..2, k \in 1..MaxRequests :
          save_user(i, k) =>
             LET data == instances[i].requests[k].user
                 id == data.id
             IN /\ id \in DOMAIN db'.users
                /\ \A col \in SuppliedColumns :
                      db'.users[id][col] = UserRow(data)[col]
                /\ id \in DOMAIN db.users =>
                      \A col \in DOMAIN db.users[id] \ SuppliedColumns :
                         db'.users[id][col] = db.users[id][col]
                /\ \A other \in DOMAIN db.users \ {id} :
                      /\ other \in DOMAIN db'.users
                      /\ db'.users[other] = db.users[other]
                /\ REPLACE_INTO_users(db', data) = db']_vars

\* C28: the table quiz_attempts is append-only and independent of save_user:
\* serving log_quiz_attempt adds exactly one row after the rows recorded, and
\* serving save_user or update_user_progress leaves every recorded row in
\* place.
C28_AttemptLogAppendOnly ==
    [][\A i \in 1..2, k \in 1..MaxRequests :
          /\ log_quiz_attempt(i, k) =>
                /\ Len(db'.quiz_attempts) = Len(db.quiz_attempts) + 1
                /\ IsPrefix(db.quiz_attempts, db'.quiz_attempts)
          /\ (save_user(i, k) \/ update_user_progress(i, k)) =>
                db'.quiz_attempts = db.quiz_attempts]_vars

\* the progress columns of the row of id
DurableProgress(d, id) ==
    <<d.users[id].xp, d.users[id].badges, d.users[id].completed_courses>>

\* C29: a sync is last-write-wins over the whole user object: once
\* update_user_progress is served for a stored user, the durable xp, badges
\* and completed list are exactly those the request carries, whatever another
\* instance has synced before.
C29_LastWriteWins ==
    [][\A i \in 1..2, k \in 1..MaxRequests :
          update_user_progress(i, k) =>
             LET data == instances[i].requests[k].user
             IN data.id \in DOMAIN db.users =>
                   DurableProgress(db', data.id) = Progress(data)]_vars

\* two instances loaded the same user, each completed a different course, both
\* syncs are served, and the store holds what one of them sent: one gain, one
\* course, not both
C29_Witness ==
    /\ instances[1].currentUser # NULL
    /\ instances[2].currentUser # NULL
    /\ instances[1].currentUser.id = instances[2].currentUser.id
    /\ instances[1].requests = <<>>
    /\ instances[2].requests = <<>>
    /\ instances[1].currentUser.completedCourses = <<"c1">>
    /\ instances[2].currentUser.completedCourses = <<"c3-1700000000000">>
    /\ DurableProgress(db, instances[1].currentUser.id)
          = Progress(instances[2].currentUser)
    /\ db.users[instances[1].currentUser.id].xp
          < instances[1].currentUser.xp + instances[2].currentUser.xp

-----------------------------------------------------------------------------
(* CourseBuilder *)

\* the slide forms saved before the exploration stops: no form is opened
\* after that
MaxSaves == 1

\* what is typed into an option field
OptionTexts == {"Yes", " "}

\* o.trim(), on the texts of the model
Trim(o) == IF o = " " THEN "" ELSE o

\* getEmbedUrl, on the contents of the model
getEmbedUrl(input) ==
    IF input = "" THEN ""
    ELSE IF Trim(input) = "https://youtu.be/abcdefghijk"
         THEN "https://www.youtube.com/embed/abcdefghijk"
         ELSE Trim(input)

\* `s-${Date.now()}` at the n-th press
SlideIdAt(n) == IF n = 0 THEN "s-1700000000011" ELSE "s-1700000000012"

\* EducatorDashboard: the builder opened for initialCourse (NULL: a new
\* course), with the useState initial values of CourseBuilder; a null string
\* is the empty string
BuilderOf(initialCourse) ==
    [isBuilderOpen |-> TRUE,
     editingCourse |-> initialCourse,
     title |-> IF initialCourse # NULL THEN initialCourse.title ELSE "",
     category |-> IF initialCourse # NULL THEN initialCourse.category ELSE "",
     slides |-> IF initialCourse # NULL THEN initialCourse.slides ELSE <<>>,
     isPreviewing |-> FALSE,
     mode |-> "overview",
     activeSlideType |-> "",
     editingSlideId |-> "",
     slideTitle |-> "",
     slideContent |-> "",
     quizQuestion |-> "",
     quizOptions |-> <<"", "">>,
     quizCorrectIdx |-> 0,
     saves |-> 0]

\* the educator has logged in and opened the builder, for a new course or
\* for a course of the list
BuilderInit ==
    /\ users = STAFFED_USERS
    /\ courses = FETCHED_COURSES
    /\ isLoading = FALSE
    /\ isOffline = FALSE
    /\ auth = [isAuthenticated |-> TRUE, currentUser |-> STAFFED_USERS[3]]
    /\ loginError = ""
    /\ activeCourse = NULL
    /\ currentSlideIndex = 0
    /\ selectedOption = NoOption
    /\ isAnswerChecked = FALSE
    /\ isCorrect = FALSE
    /\ failedSlides = {}
    /\ sessionXp = 0
    /\ everWrong = {}
    /\ logins = 0
    /\ edits = 0
    /\ calls = <<>>
    /\ db = NULL
    /\ instances = <<>>
    /\ builder \in {BuilderOf(NULL), BuilderOf(BUILT_COURSE)}

\* the builder screen is rendered, not the preview
BuilderShown == builder.isBuilderOpen /\ ~builder.isPreviewing

\* what no step of the slide form touches; it calls no observer and no store
builderFrame ==
    /\ UNCHANGED appVars
    /\ UNCHANGED sessionVars
    /\ calls' = <<>>
    /\ UNCHANGED <<db, instances>>

\* the form fields as resetSlideForm leaves them
resetSlideForm_Fields(b) ==
    [b EXCEPT !.slideTitle = "", !.slideContent = "", !.quizQuestion = "",
              !.quizOptions = <<"", "">>, !.quizCorrectIdx = 0,
              !.activeSlideType = "", !.editingSlideId = "", !.mode = "overview"]

\* the back arrow of the slide form
resetSlideForm ==
    /\ BuilderShown
    /\ builder.mode = "add-slide"
    /\ builder' = resetSlideForm_Fields(builder)
    /\ builderFrame

\* a slide-type button of the overview
setActiveSlideType(type) ==
    /\ BuilderShown
    /\ builder.mode = "overview"
    /\ builder.saves < MaxSaves
    /\ builder' = [builder EXCEPT !.activeSlideType = type, !.mode = "add-slide"]
    /\ builderFrame

\* the title field, shown for every type but quiz
setSlideTitle(v) ==
    /\ BuilderShown
    /\ builder.mode = "add-slide"
    /\ builder.activeSlideType # "quiz"
    /\ builder.slideTitle # v
    /\ builder' = [builder EXCEPT !.slideTitle = v]
    /\ builderFrame

\* the content field, shown for intro and video
setSlideContent(v) ==
    /\ BuilderShown
    /\ builder.mode = "add-slide"
    /\ builder.activeSlideType \in {"intro", "video"}
    /\ builder.slideContent # v
    /\ builder' = [builder EXCEPT !.slideContent = v]
    /\ builderFrame

\* the question field of the quiz form
setQuizQuestion(v) ==
    /\ BuilderShown
    /\ builder.mode = "add-slide"
    /\ builder.activeSlideType = "quiz"
    /\ builder.quizQuestion # v
    /\ builder' = [builder EXCEPT !.quizQuestion = v]
    /\ builderFrame

\* the round button in front of option idx (0-based)
setQuizCorrectIdx(idx) ==
    /\ BuilderShown
    /\ builder.mode = "add-slide"
    /\ builder.activeSlideType = "quiz"
    /\ idx \in 0..(Len(builder.quizOptions) - 1)
    /\ builder.quizCorrectIdx # idx
    /\ builder' = [builder EXCEPT !.quizCorrectIdx = idx]
    /\ builderFrame

\* typing into option idx: newOpts[idx] = e.target.value
setQuizOptions_Text(idx, v) ==
    /\ BuilderShown
    /\ builder.mode = "add-slide"
    /\ builder.activeSlideType = "quiz"
    /\ idx \in 0..(Len(builder.quizOptions) - 1)
    /\ builder.quizOptions[idx + 1] # v
    /\ builder' = [builder EXCEPT !.quizOptions[idx + 1] = v]
    /\ builderFrame

\* the bin next to option idx, rendered for idx > 1:
\* quizOptions.filter((_, i) => i !== idx); quizCorrectIdx stays
setQuizOptions_Remove(idx) ==
    /\ BuilderShown
    /\ builder.mode = "add-slide"
    /\ builder.activeSlideType = "quiz"
    /\ idx \in 0..(Len(builder.quizOptions) - 1)
    /\ idx > 1
    /\ builder' = [builder EXCEPT !.quizOptions = RemoveAt(@, idx + 1)]
    /\ builderFrame

\* "+ Add Option", rendered while quizOptions.length < 4
setQuizOptions_Add ==
    /\ BuilderShown
    /\ builder.mode = "add-slide"
    /\ builder.activeSlideType = "quiz"
    /\ Len(builder.quizOptions) < 4
    /\ builder' = [builder EXCEPT !.quizOptions = Append(@, "")]
    /\ builderFrame

\* quizOptions.filter(o => o.trim() !== '')
FilledOptions(quizOptions) == SelectSeq(quizOptions, LAMBDA o : Trim(o) # "")

\* handleSaveSlide: the slide built from the form
NewSlide(b) ==
    LET id == IF b.editingSlideId # "" THEN b.editingSlideId ELSE SlideIdAt(b.saves)
        finalContent == IF b.activeSlideType = "video"
                        THEN getEmbedUrl(b.slideContent) ELSE b.slideContent
    IN IF b.activeSlideType = "quiz"
       THEN [id |-> id, type |-> "quiz", title |-> "Knowledge Check",
             content |-> finalContent,
             quizData |-> [question |-> b.quizQuestion,
                           options |-> FilledOptions(b.quizOptions),
                           correctIndex |-> b.quizCorrectIdx]]
       ELSE [id |-> id, type |-> b.activeSlideType, title |-> b.slideTitle,
             content |-> finalContent]

\* handleSaveSlide (Add Slide / Update Slide)
handleSaveSlide ==
    /\ BuilderShown
    /\ builder.mode = "add-slide"
    /\ IF builder.activeSlideType = ""
       THEN builder' = [builder EXCEPT !.saves = @ + 1]
       ELSE LET newSlide == NewSlide(builder)
                newSlides == IF builder.editingSlideId # ""
                             THEN [k \in DOMAIN builder.slides |->
                                     IF builder.slides[k].id = builder.editingSlideId
                                     THEN newSlide ELSE builder.slides[k]]
                             ELSE Append(builder.slides, newSlide)
            IN builder' = [resetSlideForm_Fields(builder) EXCEPT
                              !.slides = newSlides, !.saves = @ + 1]
    /\ builderFrame

\* handleEditSlide (the pencil of a slide of the overview)
handleEditSlide(sl) ==
    /\ BuilderShown
    /\ builder.mode = "overview"
    /\ builder.saves < MaxSaves
    /\ LET loaded == [builder EXCEPT !.editingSlideId = sl.id,
                                     !.activeSlideType = sl.type,
                                     !.slideTitle = sl.title,
                                     !.slideContent = sl.content,
                                     !.mode = "add-slide"]
       IN builder' = IF sl.type = "quiz" /\ "quizData" \in DOMAIN sl
                     THEN [loaded EXCEPT !.quizQuestion = sl.quizData.question,
                                         !.quizOptions = sl.quizData.options,
                                         !.quizCorrectIdx = sl.quizData.correctIndex]
                     ELSE loaded
    /\ builderFrame

\* removeSlide (the bin of a slide of the overview)
removeSlide(id) ==
    /\ BuilderShown
    /\ builder.mode = "overview"
    /\ builder' = [builder EXCEPT !.slides = SelectSeq(@, LAMBDA s : s.id # id)]
    /\ builderFrame

\* the Title input of the overview
setTitle(v) ==
    /\ BuilderShown
    /\ builder.mode = "overview"
    /\ builder.title # v
    /\ builder' = [builder EXCEPT !.title = v]
    /\ builderFrame

\* the category select / input of the overview
setCategory(v) ==
    /\ BuilderShown
    /\ builder.mode = "overview"
    /\ builder.category # v
    /\ builder' = [builder EXCEPT !.category = v]
    /\ builderFrame

\* Preview and Publish are disabled, and their handlers return early
NothingToPublish ==
    builder.title = "" \/ builder.category = "" \/ Len(builder.slides) = 0

\* handleSaveCourse: the courseData handed to onSave
CourseData(b) ==
    [title |-> b.title, category |-> b.category, slides |-> b.slides,
     durationMinutes |-> Len(b.slides) * 2,
     xpReward |-> Len(b.slides) * 50]

\* `c${courses.length + 1}-${Date.now()}` for the course published now
NewCourseId == "c3-1700000000999"

\* setIsBuilderOpen(false); setEditingCourse(null): the builder unmounts and
\* its state is gone
BuilderClosed == [BuilderOf(NULL) EXCEPT !.isBuilderOpen = FALSE]

\* the X of the builder: onCancel
onCancel ==
    /\ BuilderShown
    /\ builder' = BuilderClosed
    /\ builderFrame

\* handleSaveCourse of the builder, onSave = handleSaveCourse of the
\* dashboard, which calls handleUpdateCourse or handleAddCourse of App and
\* closes the builder
handleSaveCourse ==
    /\ BuilderShown
    /\ builder.mode = "overview"
    /\ ~NothingToPublish
    /\ LET courseData == CourseData(builder)
           saved == IF builder.editingCourse # NULL
                    THEN Spread(courseData, [id |-> builder.editingCourse.id])
                    ELSE Spread(courseData, [id |-> NewCourseId])
       IN /\ courses' = IF builder.editingCourse # NULL
                        THEN [k \in DOMAIN courses |->
                                IF courses[k].id = saved.id THEN saved ELSE courses[k]]
                        ELSE Append(courses, saved)
          /\ calls' = <<[op |-> "saveCourse", course |-> saved]>>
    /\ builder' = BuilderClosed
    /\ UNCHANGED <<users, isLoading, isOffline, auth, loginError, activeCourse,
                   logins, edits>>
    /\ UNCHANGED sessionVars
    /\ UNCHANGED <<db, instances>>

\* CourseBuilder.handlePreview; the Preview button is disabled on the same
\* condition. The builder then renders the player, which mounts fresh.
handlePreview ==
    /\ BuilderShown
    /\ builder.mode = "overview"
    /\ ~NothingToPublish
    /\ builder' = [builder EXCEPT !.isPreviewing = TRUE]
    /\ useStateInit
    /\ calls' = <<>>
    /\ UNCHANGED appVars
    /\ UNCHANGED <<db, instances>>

\* CourseBuilder.getPreviewCourse
getPreviewCourse ==
    [id |-> "preview-temp",
     title |-> IF builder.title # "" THEN builder.title ELSE "Untitled Course",
     category |-> IF builder.category # "" THEN builder.category ELSE "Uncategorized",
     slides |-> builder.slides,
     xpReward |-> Len(builder.slides) * 50,
     durationMinutes |-> Len(builder.slides) * 2]

\* if (isPreviewing) return <CoursePlayer course={getPreviewCourse()} .../>
Previewing == builder.isBuilderOpen /\ builder.isPreviewing

\* CoursePlayer of the preview: slide = course.slides[currentSlideIndex]
previewSlide == getPreviewCourse.slides[currentSlideIndex + 1]

\* the option buttons the preview renders: slide.quizData?.options.map
PreviewTaps ==
    IF Previewing /\ HasQuizData(previewSlide)
    THEN 0 .. Len(previewSlide.quizData.options) - 1
    ELSE {}

\* onClose={() => setIsPreviewing(false)}: the player unmounts
preview_onClose ==
    /\ Previewing
    /\ builder' = [builder EXCEPT !.isPreviewing = FALSE]
    /\ useStateInit
    /\ calls' = <<>>
    /\ UNCHANGED appVars
    /\ UNCHANGED <<db, instances>>

\* an option button of the previewed quiz slide
preview_selectOption(idx) ==
    /\ Previewing
    /\ previewSlide.type = "quiz"
    /\ HasQuizData(previewSlide)
    /\ idx \in 0 .. Len(previewSlide.quizData.options) - 1
    /\ selectedOption' = IF ~isAnswerChecked THEN idx ELSE selectedOption
    /\ calls' = <<>>
    /\ UNCHANGED appVars
    /\ UNCHANGED <<currentSlideIndex, isAnswerChecked, isCorrect, failedSlides,
                   sessionXp, everWrong>>
    /\ UNCHANGED otherVars

\* mutant: the preview is given the attempt handler of App as onQuizAttempt
preview_handleQuizSubmit_Observed ==
    /\ Previewing
    /\ previewSlide.type = "quiz" /\ ~isAnswerChecked
    /\ selectedOption # NoOption
    /\ ~(selectedOption = NoOption \/ ~HasQuizData(previewSlide))
    /\ LET correct == selectedOption = previewSlide.quizData.correctIndex
       IN /\ isCorrect' = correct
          /\ isAnswerChecked' = TRUE
          /\ failedSlides' = IF ~correct THEN failedSlides \cup {previewSlide.id}
                             ELSE failedSlides
          /\ everWrong' = IF ~correct THEN everWrong \cup {currentSlideIndex}
                          ELSE everWrong
          /\ handleQuizAttempt(getPreviewCourse.id, previewSlide.id,
                               previewSlide.quizData.question,
                               previewSlide.quizData.options[selectedOption + 1],
                               correct)
    /\ UNCHANGED <<courses, isLoading, isOffline, loginError, activeCourse, logins, edits>>
    /\ UNCHANGED <<currentSlideIndex, selectedOption, sessionXp>>
    /\ UNCHANGED otherVars

\* Check Answer in the preview: handleQuizSubmit with onQuizAttempt undefined
preview_handleQuizSubmit ==
    /\ Previewing
    /\ previewSlide.type = "quiz" /\ ~isAnswerChecked
    /\ selectedOption # NoOption
    /\ ~(selectedOption = NoOption \/ ~HasQuizData(previewSlide))
    /\ LET correct == selectedOption = previewSlide.quizData.correctIndex
       IN /\ isCorrect' = correct
          /\ isAnswerChecked' = TRUE
          /\ failedSlides' = IF ~correct THEN failedSlides \cup {previewSlide.id}
                             ELSE failedSlides
          /\ everWrong' = IF ~correct THEN everWrong \cup {currentSlideIndex}
                          ELSE everWrong
    /\ calls' = <<>>
    /\ UNCHANGED appVars
    /\ UNCHANGED <<currentSlideIndex, selectedOption, sessionXp>>
    /\ UNCHANGED otherVars

\* Try Again in the preview
preview_handleRetry ==
    /\ Previewing
    /\ previewSlide.type = "quiz" /\ isAnswerChecked /\ ~isCorrect
    /\ isAnswerChecked' = FALSE
    /\ selectedOption' = NoOption
    /\ isCorrect' = FALSE
    /\ calls' = <<>>
    /\ UNCHANGED appVars
    /\ UNCHANGED <<currentSlideIndex, failedSlides, sessionXp, everWrong>>
    /\ UNCHANGED otherVars

\* Continue / Finish Module in the preview: handleNext with
\* onComplete={() => setIsPreviewing(false)}
preview_handleNext ==
    /\ Previewing
    /\ ~(previewSlide.type = "quiz" /\ ~isAnswerChecked)
    /\ ~(previewSlide.type = "quiz" /\ ~isCorrect)
    /\ LET earnedForThisSlide ==
               IF previewSlide.type = "quiz" /\ previewSlide.id \in failedSlides
               THEN 0 ELSE XP_PER_SLIDE
           newTotalXp == sessionXp + earnedForThisSlide
       IN IF currentSlideIndex = Len(getPreviewCourse.slides) - 1
          THEN /\ calls' = <<[op |-> "onComplete", courseId |-> getPreviewCourse.id,
                               xp |-> newTotalXp]>>
               /\ builder' = [builder EXCEPT !.isPreviewing = FALSE]
               /\ useStateInit
               /\ UNCHANGED <<db, instances>>
          ELSE /\ sessionXp' = newTotalXp
               /\ currentSlideIndex' = currentSlideIndex + 1
               /\ selectedOption' = NoOption
               /\ isAnswerChecked' = FALSE
               /\ isCorrect' = FALSE
               /\ calls' = <<>>
               /\ UNCHANGED <<failedSlides, everWrong>>
               /\ UNCHANGED otherVars
    /\ UNCHANGED appVars

BuilderNext ==
    \/ resetSlideForm
    \/ \E type \in {"intro", "video", "quiz"} : setActiveSlideType(type)
    \/ setSlideTitle("Welcome")
    \/ setSlideContent("https://youtu.be/abcdefghijk")
    \/ setQuizQuestion("Call bell within reach?")
    \/ \E idx \in 0..3 : setQuizCorrectIdx(idx)
    \/ \E idx \in 0..3, v \in OptionTexts : setQuizOptions_Text(idx, v)
    \/ \E idx \in 0..3 : setQuizOptions_Remove(idx)
    \/ setQuizOptions_Add
    \/ handleSaveSlide
    \/ \E k \in DOMAIN builder.slides : handleEditSlide(builder.slides[k])
    \/ \E k \in DOMAIN builder.slides : removeSlide(builder.slides[k].id)
    \/ \E v \in {"", "Falls Prevention"} : setTitle(v)
    \/ \E v \in {"", "Safety"} : setCategory(v)
    \/ onCancel
    \/ handleSaveCourse
    \/ handlePreview
    \/ preview_onClose
    \/ \E idx \in PreviewTaps : preview_selectOption(idx)
    \/ preview_handleQuizSubmit
    \/ preview_handleRetry
    \/ preview_handleNext

BuilderSpec == BuilderInit /\ [][BuilderNext]_vars

\* C30: the Course Builder produces only well-formed quiz slides: every quiz
\* slide of the builder's slide list carries at least 2 options and a
\* correctIndex with 0 <= correctIndex < options.length.
C30_WellFormedQuiz ==
    \A k \in DOMAIN builder.slides :
       builder.slides[k].type = "quiz" =>
          /\ Len(builder.slides[k].quizData.options) >= 2
          /\ builder.slides[k].quizData.correctIndex >= 0
          /\ builder.slides[k].quizData.correctIndex
                < Len(builder.slides[k].quizData.options)

\* C31: every course the application holds declares xpReward equal to
\* slides.length * 50 and durationMinutes equal to slides.length * 2.
C31_DeclaredReward ==
    \A i \in DOMAIN courses :
       /\ courses[i].xpReward = Len(courses[i].slides) * XP_PER_SLIDE
       /\ courses[i].durationMinutes = Len(courses[i].slides) * 2

-----------------------------------------------------------------------------
(* The startup load when both reads settle *)

\* fetch() settles, by a response or by a network error: the await of
\* fetchData is resumed
LoadSpec == Init /\ [][Next]_vars /\ WF_vars(fetchDataOk \/ fetchDataFail)

\* C32: the startup load always finishes, and it finishes in one of two
\* ways: users and courses are the fetched lists and the offline flag is
\* false, or both are the seed data and the offline flag is true.
C32_StartupLoad ==
    /\ <>(~isLoading)
    /\ [][isLoading /\ ~isLoading' =>
             \/ /\ users' = FETCHED_USERS
                /\ courses' = FETCHED_COURSES
                /\ ~isOffline'
             \/ /\ users' = INITIAL_USERS
                /\ courses' = INITIAL_COURSES
                /\ isOffline']_vars

\* the load has failed and the application runs on the seed data
C32_Witness ==
    /\ ~isLoading
    /\ isOffline
    /\ users = INITIAL_USERS
    /\ courses = INITIAL_COURSES
    /\ ~auth.isAuthenticated

-----------------------------------------------------------------------------
(* A nurse who goes on: presses the control offered, and on each quiz
   eventually selects and submits the correct option *)

\* the correct option is tapped while the answer is open
SelectsCorrect ==
    ~isAnswerChecked /\ selectOption(slide.quizData.correctIndex)

\* Check Answer is pressed with the correct option selected
SubmitsCorrect ==
    handleQuizSubmit /\ selectedOption = slide.quizData.correctIndex

PlaySpec ==
    /\ Init
    /\ [][Next]_vars
    /\ SF_vars(SelectsCorrect)
    /\ SF_vars(SubmitsCorrect)
    /\ WF_vars(handleRetry)
    /\ WF_vars(handleNext)

\* the number of footer controls rendered
ControlsShown ==
    (IF showQuizCheckBtn THEN 1 ELSE 0) + (IF showRetryBtn THEN 1 ELSE 0)
       + (IF showNextBtn THEN 1 ELSE 0)

\* a step the nurse can take to go on; Check Answer needs an option, which a
\* tap provides
CanGoOn ==
    \/ ENABLED handleNext
    \/ ENABLED handleRetry
    \/ ENABLED handleQuizSubmit
    \/ ENABLED SelectsCorrect

\* the runs explored stop recording attempts here
AttemptsExhausted == TotalAttempts >= MaxAttempts

\* C33: every session state offers exactly one of Check Answer, Try Again and
\* Continue/Finish, no session state is stuck, and a nurse who eventually
\* submits the correct option on each quiz, and does not leave, reaches the
\* terminal advance (within the attempts the runs record).
C33_OneControlNoStuck ==
    /\ [](Mounted => ControlsShown = 1)
    /\ [](Mounted /\ ~AttemptsExhausted => CanGoOn)
    /\ (Mounted ~> (OnCompleteFired \/ ~Mounted \/ AttemptsExhausted))

\* a nurse who answered a quiz wrongly, retried and went on stands on the
\* last slide with Finish Module offered
C33_Witness ==
    /\ Mounted
    /\ isLastSlide
    /\ failedSlides # {}
    /\ showNextBtn
    /\ ControlsShown = 1

\* C34: the answer state of a session is consistent: isCorrect implies
\* isAnswerChecked; a checked answer implies that an option is selected and
\* that the current slide is a quiz; and a checked answer is correct exactly
\* when the selected option is the slide's correctIndex.
C34_AnswerState ==
    /\ isCorrect => isAnswerChecked
    /\ isAnswerChecked =>
          /\ Mounted
          /\ selectedOption # NoOption
          /\ slide.type = "quiz"
          /\ isCorrect = (selectedOption = slide.quizData.correctIndex)

\* a wrong option is selected, checked and found not correct
C34_Witness ==
    /\ Mounted
    /\ isAnswerChecked
    /\ ~isCorrect
    /\ selectedOption # NoOption
    /\ selectedOption # slide.quizData.correctIndex

\* the slides of the session below the current index that are not failed
CleanBelow ==
    {k \in 1..currentSlideIndex : activeCourse.slides[k].id \notin failedSlides}

\* the ids of the quiz slides at indices up to the current index
QuizIdsSoFar ==
    {activeCourse.slides[k].id : k \in
        {j \in 1..(currentSlideIndex + 1) : activeCourse.slides[j].type = "quiz"}}

\* C35: in every session state the session XP is 50 times the number of
\* slides below the current index whose id is not in the failed set, hence a
\* multiple of 50, not negative and at most 50 * current index; the failed
\* set holds only ids of quiz slides at indices up to the current index; and
\* while the session goes on the session XP never decreases.
C35_SessionXp ==
    /\ [](Mounted =>
            /\ sessionXp = XP_PER_SLIDE * Cardinality(CleanBelow)
            /\ sessionXp % XP_PER_SLIDE = 0
            /\ sessionXp >= 0
            /\ sessionXp <= XP_PER_SLIDE * currentSlideIndex
            /\ failedSlides \subseteq QuizIdsSoFar)
    /\ [][SessionGoesOn => sessionXp' >= sessionXp]_vars

\* the nurse is past a quiz failed on the way: the session XP is short of 50
\* per slide left behind
C35_Witness ==
    /\ Mounted
    /\ currentSlideIndex > 0
    /\ \E k \in 1..currentSlideIndex : activeCourse.slides[k].id \in failedSlides
    /\ sessionXp = XP_PER_SLIDE * (currentSlideIndex - 1)

\* no two entries of the list have the same id
UniqueIds(us) == \A i, j \in DOMAIN us : us[i].id = us[j].id => i = j

\* the user form is saved for a new user whose id is in use
AddsKnownId ==
    \E newUser \in AddForms :
       /\ handleSaveUser(newUser, FALSE)
       /\ newUser.name # ""
       /\ \E i \in DOMAIN users : users[i].id = newUser.id

\* C36: user ids stay unique: no two entries of the in-memory user list have
\* the same id, whatever is added, edited, removed or imported, and adding a
\* user whose id is in use leaves the list unchanged.
C36_UniqueIds ==
    /\ [](UniqueIds(users))
    /\ [][AddsKnownId => users' = users]_vars

\* a file that names a new id twice has been imported: the list holds the id
\* once, with the data of the second line
C36_Witness ==
    /\ UniqueIds(users)
    /\ \E i \in DOMAIN users : users[i].id = "30003" /\ users[i].name = "Farah Lee"

\* the list holds an entry with the id of the logged-in user
SelfListed == \E i \in DOMAIN users : users[i].id = auth.currentUser.id

\* the educator presses the bin of the own account
RemovesSelf ==
    \E confirmed \in BOOLEAN : handleRemoveUser(auth.currentUser.id, confirmed)

\* C37: while a user is authenticated the user list holds an entry with that
\* user's id: removing one's own account is rejected with the list unchanged,
\* and no other operation removes the entry.
C37_SelfListed ==
    /\ [](auth.isAuthenticated => SelfListed)
    /\ [][(auth.isAuthenticated /\ RemovesSelf) => users' = users]_vars

\* the educator has removed another user; the own entry is still in the list
C37_Witness ==
    /\ auth.isAuthenticated
    /\ calls # <<>>
    /\ calls[1].op = "deleteUser"
    /\ calls[1].userId # auth.currentUser.id
    /\ SelfListed

\* a CSV file is imported
ImportStep == \E rows \in CsvFiles : handleFileChange(rows)

\* every handler but the CSV import leaves auth.currentUser equal to the
\* list entry
C38_InSyncButImport ==
    [][~ImportStep =>
         (auth'.isAuthenticated =>
              auth'.currentUser = FindUser(users', auth'.currentUser.id))]_vars

\* C38: while a user is authenticated, auth.currentUser equals in every
\* field the entry of the user list with the same id.
C38_CurrentUserInSync ==
    auth.isAuthenticated => auth.currentUser = FindUser(users, auth.currentUser.id)

\* the fields of a user the edit form does not hold
NotInForm(u) ==
    <<u.id, u.xp, u.streak, u.badges, u.completedCourses, u.quizAttempts>>

\* C39: saving the user form in edit mode keeps the length and order of the
\* list, leaves every user but the edited one unchanged, and preserves the
\* edited user's id, xp, streak, badges, completed courses and quiz attempts.
C39_EditKeepsProgress ==
    [][\A newUser \in EditForms :
          handleSaveUser(newUser, TRUE) =>
              /\ Len(users') = Len(users)
              /\ \A i \in DOMAIN users :
                    IF users[i].id = newUser.id
                    THEN NotInForm(users'[i]) = NotInForm(users[i])
                    ELSE users'[i] = users[i]]_vars

\* a user with earned xp has been renamed through the edit form
C39_Witness ==
    /\ EducatorView
    /\ calls # <<>>
    /\ calls[1].op = "saveUser"
    /\ calls[1].user.name = "Nur Aisyah"
    /\ calls[1].user.xp > 0
    /\ FindUser(users, calls[1].user.id) = calls[1].user

\* C40: a step of the builder's preview changes no user (so no progress and
\* no history), reports no quiz attempt, issues no store call and leaves the
\* builder's slides, title and category as they are; finishing or closing
\* the preview shows the builder again.
C40_PreviewIsInert ==
    [][Previewing =>
          /\ users' = users
          /\ auth' = auth
          /\ courses' = courses
          /\ \A i \in DOMAIN calls' :
                calls'[i].op \notin StoreOps \cup {"onQuizAttempt"}
          /\ builder' \in {builder, [builder EXCEPT !.isPreviewing = FALSE]}
          /\ (preview_onClose \/ (preview_handleNext /\ calls' # <<>>))
                => BuilderShown']_vars

\* the educator has answered the quiz slides of the preview, one of them
\* wrongly at first, and pressed Finish Module: the builder is shown again
C40_Witness ==
    /\ BuilderShown
    /\ calls # <<>>
    /\ calls[1].op = "onComplete"
    /\ calls[1].courseId = "preview-temp"
    /\ calls[1].xp < Len(builder.slides) * XP_PER_SLIDE
    /\ users = STAFFED_USERS

=============================================================================
